---- MODULE Spec2Model ----
(***************************************************************************)
(* Model of the large-document chunking and merge orchestrator of          *)
(* mineru-api: worker/tasks.py (parse_document_task, split_pdf_file,       *)
(* _handle_split_and_parse, _merge_chunk_results_from_results,             *)
(* merge_chunk_results_task) on top of a Celery queue with a worker pool.  *)
(***************************************************************************)
EXTENDS Integers, Sequences, FiniteSets, TLC

(***************************************************************************)
(* Bounds of the model.                                                    *)
(***************************************************************************)
MaxPages == 3          \* pages of an uploaded document
MaxChunkSize == 2      \* MINERU_PAGE_CHUNK_SIZE values explored
MaxThreshold == 2      \* MINERU_PAGINATION_THRESHOLD values explored
MaxDocs == 1           \* documents submitted
MaxUploads == 2
MaxTasks == 5          \* tasks ever sent to the queue
MaxMergeChunks == 3    \* chunk results given to the merge on its own
MaxWorkers == 2        \* WORKER_CONCURRENCY values explored
MaxSplitPages == 12    \* pages given to split_pdf_file on its own
MaxSplitChunk == 5     \* chunk sizes given to split_pdf_file on its own

Min(a, b) == IF a <= b THEN a ELSE b

(***************************************************************************)
(* Optional values (a key a Python dict may lack): {} or {v}.              *)
(***************************************************************************)
None == {}
Some(v) == {v}
Get(opt, default) == IF opt = {} THEN default ELSE CHOOSE v \in opt : TRUE

(***************************************************************************)
(* Documents.  A file is the sequence of its pages; a page is identified   *)
(* by its 1-based number in the uploaded document, so that a chunk file    *)
(* remembers which pages of the original it holds.                         *)
(***************************************************************************)
PdfDocument(total_pages) == [p \in 1..total_pages |-> p]

\* pypdfium2: chunk_pdf.import_pages(pdf, pages=range(i, end_page))
import_pages(pdf, i, end_page) == SubSeq(pdf, i + 1, end_page)

(***************************************************************************)
(* split_pdf_file: for i in range(0, total_pages, chunk_size)              *)
(***************************************************************************)
\* a splitter that truncates the first range instead of the last
SplitLoopTruncatesFirst(pdf, chunk_size, i) ==
    LET total_pages == Len(pdf)
        n == (total_pages + chunk_size - 1) \div chunk_size
        first == total_pages - (n - 1) * chunk_size
    IN [k \in 1..n |->
          LET start == IF k = 1 THEN 0 ELSE first + (k - 2) * chunk_size
              end_page == first + (k - 1) * chunk_size
          IN [path |-> import_pages(pdf, start, end_page),
              start_page |-> start + 1,
              end_page |-> end_page,
              page_count |-> end_page - start]]

RECURSIVE SplitLoop(_, _, _)
SplitLoop(pdf, chunk_size, i) ==
    LET total_pages == Len(pdf)
        end_page == Min(i + chunk_size, total_pages)
        chunk_page_count == end_page - i
        chunk_info == [path |-> import_pages(pdf, i, end_page),
                       start_page |-> i + 1,
                       end_page |-> end_page,
                       page_count |-> chunk_page_count]
    IN IF i >= total_pages THEN <<>>
       ELSE <<chunk_info>> \o SplitLoop(pdf, chunk_size, i + chunk_size)

\* a splitter that forgets the truncation of the last range
SplitLoopNoTruncate(pdf, chunk_size) ==
    LET total_pages == Len(pdf)
        n == (total_pages + chunk_size - 1) \div chunk_size
    IN [k \in 1..n |->
          [path |-> import_pages(pdf, (k - 1) * chunk_size, Min(k * chunk_size, total_pages)),
           start_page |-> (k - 1) * chunk_size + 1,
           end_page |-> k * chunk_size,
           page_count |-> chunk_size]]

split_pdf_file(pdf, chunk_size) == SplitLoop(pdf, chunk_size, 0)

(***************************************************************************)
(* Results.  A result is the dict a task returns; keys a dict may lack are *)
(* optional values.  Markdown is a sequence of page tokens, an error       *)
(* message a sequence of message parts.                                    *)
(***************************************************************************)
NoContentList == [shape |-> "none", meta |-> 0, iterable |-> TRUE, records |-> <<>>]

ErrPart(t, n) == [t |-> t, n |-> n]

CompletedResult(parse_method, content, images, content_list) ==
    [status |-> "completed", parse_method |-> parse_method, content |-> content,
     images |-> images, has_images |-> images /= <<>>, content_list |-> content_list,
     error_message |-> <<>>, start_page |-> None, end_page |-> None, kwargs |-> None]

FailedResult(error_message) ==
    [status |-> "failed", parse_method |-> "", content |-> <<>>,
     images |-> <<>>, has_images |-> FALSE, content_list |-> NoContentList,
     error_message |-> error_message, start_page |-> None, end_page |-> None,
     kwargs |-> None]

\* the exception a task raised, as Celery stores it in the result backend
Raised(error_message) == [FailedResult(error_message) EXCEPT !.status = "exception"]

NoResult == [FailedResult(<<>>) EXCEPT !.status = "none"]

(***************************************************************************)
(* _merge_chunk_results_from_results                                       *)
(***************************************************************************)
\* x.get('start_page', 1)
StartPageOf(r) == Get(r.start_page, 1)

\* an insertion that orders by descending key
RECURSIVE InsertChunkResultDescending(_, _)
InsertChunkResultDescending(sorted, x) ==
    IF sorted = <<>> THEN <<x>>
    ELSE IF StartPageOf(Head(sorted)) >= StartPageOf(x)
         THEN <<Head(sorted)>> \o InsertChunkResultDescending(Tail(sorted), x)
         ELSE <<x>> \o sorted

\* list.sort(key=...) is stable: an element goes after every element whose
\* key is not greater
RECURSIVE InsertChunkResult(_, _)
InsertChunkResult(sorted, x) ==
    IF sorted = <<>> THEN <<x>>
    ELSE IF StartPageOf(Head(sorted)) <= StartPageOf(x)
         THEN <<Head(sorted)>> \o InsertChunkResult(Tail(sorted), x)
         ELSE <<x>> \o sorted

RECURSIVE StableSortByStartPage(_)
StableSortByStartPage(seq) ==
    IF seq = <<>> THEN <<>>
    ELSE InsertChunkResult(StableSortByStartPage(SubSeq(seq, 1, Len(seq) - 1)), seq[Len(seq)])

\* chunk_results.sort(key=lambda x: x.get('start_page', 1))
SortChunkResults(chunk_results) == StableSortByStartPage(chunk_results)

\* an insertion that drops an image whose filename is already there
RECURSIVE InsertImageOnce(_, _)
InsertImageOnce(sorted, x) ==
    IF sorted = <<>> THEN <<x>>
    ELSE IF Head(sorted).filename = x.filename THEN sorted
    ELSE IF Head(sorted).filename < x.filename
         THEN <<Head(sorted)>> \o InsertImageOnce(Tail(sorted), x)
         ELSE <<x>> \o sorted

\* merged_images.sort(key=lambda img: img.get('filename', ''))
RECURSIVE InsertImage(_, _)
InsertImage(sorted, x) ==
    IF sorted = <<>> THEN <<x>>
    ELSE IF Head(sorted).filename <= x.filename
         THEN <<Head(sorted)>> \o InsertImage(Tail(sorted), x)
         ELSE <<x>> \o sorted

RECURSIVE SortImages(_)
SortImages(seq) ==
    IF seq = <<>> THEN <<>>
    ELSE InsertImage(SortImages(SubSeq(seq, 1, Len(seq) - 1)), seq[Len(seq)])

\* `if chunk_content_list:` a missing key, an empty list or an empty dict is falsy
Truthy(cl) ==
    CASE cl.shape = "none" -> FALSE
      [] cl.shape = "list" -> cl.records /= <<>>
      [] OTHER -> TRUE

\* the format chosen from the first chunk that has a content list
DetectFormat(cl) ==
    CASE cl.shape = "pages" -> "pages"
      [] cl.shape = "items" -> "items"
      [] OTHER -> "list"

DetectMeta(cl) == IF cl.shape \in {"pages", "items"} THEN cl.meta ELSE 0

\* the keys of a record that are shifted when the record stands in a flat list
ListPageFields == {"page_idx", "page_number", "page", "page_index", "page_num"}

\* the keys that are shifted when it stands under 'pages' or 'items'
WrapperPageFields == {"page_idx", "page_number", "page"}

\* item.copy(), then merged_item[f] += page_offset for every key f of
\* `fields` that the record has
ShiftFields(rec, fields, page_offset) ==
    [f \in DOMAIN rec |->
        IF f \in fields THEN {p + page_offset : p \in rec[f]} ELSE rec[f]]

ShiftNoOffset(rec, page_offset) == rec

\* a record of a flat list
ShiftRecord(rec, page_offset) == ShiftFields(rec, ListPageFields, page_offset)

\* a record under 'pages' or 'items'
ShiftWrappedRecord(rec, page_offset) == ShiftFields(rec, WrapperPageFields, page_offset)

\* `+=` raises TypeError when the value of a key that is shifted is not a number
ShiftRaises(rec, fields) == \E f \in fields : rec[f] /= None /\ f \in rec.non_numeric

\* the chunk's content list makes the loop raise: `for page in
\* chunk_content_list['pages']` over a value that cannot be iterated, or the
\* shift of a record
ChunkRaises(cl) ==
    CASE cl.shape = "list" ->
            \E k \in 1..Len(cl.records) : ShiftRaises(cl.records[k], ListPageFields)
      [] cl.shape \in {"pages", "items"} ->
            \/ ~cl.iterable
            \/ \E k \in 1..Len(cl.records) : ShiftRaises(cl.records[k], WrapperPageFields)
      [] OTHER -> FALSE

\* the records one chunk contributes: a dict with neither pages nor items gives none
ChunkRecords(cl, page_offset) ==
    CASE cl.shape = "list" ->
            [k \in 1..Len(cl.records) |-> ShiftRecord(cl.records[k], page_offset)]
      [] cl.shape \in {"pages", "items"} ->
            [k \in 1..Len(cl.records) |-> ShiftWrappedRecord(cl.records[k], page_offset)]
      [] OTHER -> <<>>

RECURSIVE MergeLoop(_, _)
MergeLoop(sorted, acc) ==
    IF sorted = <<>> THEN acc
    ELSE LET chunk_result == Head(sorted)
             cl == chunk_result.content_list
             page_offset == StartPageOf(chunk_result) - 1
             first == Truthy(cl) /\ acc.format = "undetected"
             next == [md |-> acc.md \o chunk_result.content,
                      images |-> acc.images \o chunk_result.images,
                      format |-> IF first THEN DetectFormat(cl) ELSE acc.format,
                      meta |-> IF first THEN DetectMeta(cl) ELSE acc.meta,
                      records |-> IF Truthy(cl)
                                  THEN acc.records \o ChunkRecords(cl, page_offset)
                                  ELSE acc.records,
                      raised |-> FALSE]
         IN IF Truthy(cl) /\ ChunkRaises(cl)
            THEN [acc EXCEPT !.raised = TRUE]
            ELSE MergeLoop(Tail(sorted), next)

merge_chunk_results_from_results(chunk_results) ==
    LET sorted == SortChunkResults(chunk_results)
        m == MergeLoop(sorted, [md |-> <<>>, images |-> <<>>, format |-> "undetected",
                                meta |-> 0, records |-> <<>>, raised |-> FALSE])
        parse_method == IF sorted /= <<>> THEN sorted[1].parse_method ELSE "MinerU"
        merged_images == SortImages(m.images)
        final_content_list ==
            IF m.records /= <<>>
            THEN [shape |-> m.format, meta |-> m.meta, iterable |-> TRUE,
                  records |-> m.records]
            ELSE NoContentList
    IN IF m.raised
       THEN Raised(<<ErrPart("TypeError", 0)>>)
       ELSE CompletedResult(parse_method, m.md, merged_images, final_content_list)

(***************************************************************************)
(* The parsing engine (external): what it produces for a file.  The        *)
(* content list of MinerU is a flat list of records whose page_idx is the  *)
(* 0-based page within the parsed file.                                    *)
(***************************************************************************)
EngineImages(pages) == [k \in 1..Len(pages) |-> [filename |-> pages[k], data |-> pages[k]]]

\* a record: its origin (id, n), the page keys it has, and which of them
\* hold something that is not a number
ContentRecord(id, n, page_idx, page_number, page, page_index, page_num) ==
    [id |-> id, n |-> n, page_idx |-> page_idx, page_number |-> page_number,
     page |-> page, page_index |-> page_index, page_num |-> page_num,
     non_numeric |-> {}]

EngineContentList(pages) ==
    [shape |-> "list", meta |-> 0, iterable |-> TRUE,
     records |-> [k \in 1..Len(pages) |->
                     ContentRecord(pages[k], k, Some(k - 1), None, None, None, None)]]

\* get_file_type: by the suffix of the path
get_file_type(file) == IF file.suffix \in {"pdf", "png"} THEN "pdf_image" ELSE "markitdown"

(***************************************************************************)
(* _execute_parse_document: the result dict of one parse.  outcome "ok":   *)
(* the engine succeeded; "failed": it raised, and the exception is caught. *)
(***************************************************************************)
execute_parse_document(file, outcome) ==
    IF outcome = "ok"
    THEN IF get_file_type(file) = "pdf_image"
         THEN CompletedResult("MinerU", file.pages, EngineImages(file.pages),
                              EngineContentList(file.pages))
         ELSE CompletedResult("MarkItDown", file.pages, <<>>, NoContentList)
    ELSE FailedResult(<<ErrPart("ParseError", file.pages[1])>>)

(***************************************************************************)
(* parse_document_task: the decision between the direct and the split path *)
(***************************************************************************)
\* get_pdf_page_count: 0 when pypdfium2 is missing or the probe raises
get_pdf_page_count(file, pypdfium2_available, probe_ok) ==
    IF pypdfium2_available /\ probe_ok THEN Len(file.pages) ELSE 0

\* file_name.lower().endswith('.pdf')
IsPdfName(file) == file.suffix = "pdf"

\* options.get('enable_pagination') is False
UserDisablePagination(options) == options.enable_pagination = Some(FALSE)

\* the page count the decision uses: probed only under the first conditions
TotalPages(e, file, options, probe_ok) ==
    IF ~UserDisablePagination(options) /\ e.MINERU_ENABLE_PAGINATION
       /\ e.PYPDFIUM2_AVAILABLE /\ IsPdfName(file)
    THEN get_pdf_page_count(file, e.PYPDFIUM2_AVAILABLE, probe_ok)
    ELSE 0

\* a decision that splits every PDF it could count
UsePaginationAnySize(e, file, options, probe_ok) ==
    /\ ~UserDisablePagination(options)
    /\ e.MINERU_ENABLE_PAGINATION
    /\ e.PYPDFIUM2_AVAILABLE /\ IsPdfName(file)
    /\ TotalPages(e, file, options, probe_ok) > 0

\* a decision that takes an unknown page count for a large one
UsePaginationUnprobed(e, file, options, probe_ok) ==
    /\ ~UserDisablePagination(options)
    /\ e.MINERU_ENABLE_PAGINATION
    /\ IsPdfName(file)
    /\ \/ TotalPages(e, file, options, probe_ok) = 0
       \/ TotalPages(e, file, options, probe_ok) > e.MINERU_PAGINATION_THRESHOLD

\* a decision that also splits at the threshold
UsePaginationAtThreshold(e, file, options, probe_ok) ==
    /\ ~UserDisablePagination(options)
    /\ e.MINERU_ENABLE_PAGINATION
    /\ e.PYPDFIUM2_AVAILABLE /\ IsPdfName(file)
    /\ TotalPages(e, file, options, probe_ok) >= e.MINERU_PAGINATION_THRESHOLD

UsePagination(e, file, options, probe_ok) ==
    /\ ~UserDisablePagination(options)
    /\ e.MINERU_ENABLE_PAGINATION
    /\ e.PYPDFIUM2_AVAILABLE /\ IsPdfName(file)
    /\ TotalPages(e, file, options, probe_ok) > e.MINERU_PAGINATION_THRESHOLD

(***************************************************************************)
(* _handle_split_and_parse, local storage: the chunks are parsed one after *)
(* the other inside the task.  outcomes[k] is what the engine does with    *)
(* chunk k.                                                                *)
(***************************************************************************)
ChunkFile(chunk) == [pages |-> chunk.path, suffix |-> "pdf"]

\* a message that cites the last failure
AllChunksFailedMessageLast(n, failed_chunks) ==
    <<ErrPart("AllChunksFailed", n)>>
        \o (IF failed_chunks /= <<>> THEN failed_chunks[Len(failed_chunks)].error
                                     ELSE <<ErrPart("Unknown", 0)>>)

\* "All N chunks failed. First error: ..."
AllChunksFailedMessage(n, failed_chunks) ==
    <<ErrPart("AllChunksFailed", n)>>
        \o (IF failed_chunks /= <<>> THEN failed_chunks[1].error
                                     ELSE <<ErrPart("Unknown", 0)>>)

\* a chunk loop that stops at the first chunk that fails
RECURSIVE SyncLoopStopsAtFailure(_, _, _, _)
SyncLoopStopsAtFailure(chunks, outcomes, k, acc) ==
    IF k > Len(chunks) THEN acc
    ELSE LET chunk == chunks[k]
             chunk_result == execute_parse_document(ChunkFile(chunk), outcomes[k])
             tagged == [chunk_result EXCEPT !.start_page = Some(chunk.start_page),
                                            !.end_page = Some(chunk.end_page)]
             called == [acc EXCEPT !.attempts = Append(@, chunk)]
         IN IF chunk_result.status = "failed"
            THEN [called EXCEPT !.failed_chunks =
                     Append(@, [task_id |-> 0, error |-> chunk_result.error_message])]
            ELSE SyncLoopStopsAtFailure(chunks, outcomes, k + 1,
                     [called EXCEPT !.chunk_results = Append(@, tagged)])

\* `for chunk in chunks:` of the local branch.  attempts: the chunks given to
\* _execute_parse_document, in the order of the calls
RECURSIVE SyncLoop(_, _, _, _)
SyncLoop(chunks, outcomes, k, acc) ==
    IF k > Len(chunks) THEN acc
    ELSE LET chunk == chunks[k]
             chunk_result == execute_parse_document(ChunkFile(chunk), outcomes[k])
             tagged == [chunk_result EXCEPT !.start_page = Some(chunk.start_page),
                                            !.end_page = Some(chunk.end_page)]
             called == [acc EXCEPT !.attempts = Append(@, chunk)]
         IN IF chunk_result.status = "failed"
            THEN SyncLoop(chunks, outcomes, k + 1,
                     [called EXCEPT !.failed_chunks =
                         Append(@, [task_id |-> 0, error |-> chunk_result.error_message])])
            ELSE SyncLoop(chunks, outcomes, k + 1,
                     [called EXCEPT !.chunk_results = Append(@, tagged)])

\* the lists when the loop is over
SyncLists(chunks, outcomes) ==
    SyncLoop(chunks, outcomes, 1,
             [chunk_results |-> <<>>, failed_chunks |-> <<>>, attempts |-> <<>>])

handle_split_sync(chunks, outcomes) ==
    LET acc == SyncLists(chunks, outcomes)
    IN IF acc.chunk_results = <<>>
       THEN FailedResult(AllChunksFailedMessage(Len(chunks), acc.failed_chunks))
       ELSE merge_chunk_results_from_results(acc.chunk_results)

\* `except Exception as e:` of merge_chunk_results_task: what was raised
\* inside the task becomes a failed result
CatchRaised(result) ==
    IF result.status = "exception" THEN FailedResult(result.error_message) ELSE result

(***************************************************************************)
(* merge_chunk_results_task: what the await loop does with one chunk task  *)
(***************************************************************************)
\* AsyncResult.ready()
Ready(task) == task.state \in {"SUCCESS", "FAILURE", "REVOKED"}

\* AsyncResult.info: Celery returns what the result backend stores for the
\* task, which for a finished task is its return value (or its exception)
AsyncResultInfo(task) == task.result

\* task_info.get('kwargs', {}).get('options', {}).get('chunk_info', {})
ChunkInfoOfTaskInfo(task_info) ==
    IF task_info.kwargs = None THEN None
    ELSE (CHOOSE kw \in task_info.kwargs : TRUE).options.chunk_info

\* chunk_result['start_page'] = chunk_start, when chunk_info was found
TagWithChunkInfo(chunk_result, chunk_info) ==
    IF chunk_info = None THEN chunk_result
    ELSE LET ci == CHOOSE c \in chunk_info : TRUE
         IN [chunk_result EXCEPT !.start_page = Some(ci.start_page),
                                 !.end_page = Some(ci.end_page)]

\* an examination that records nothing for a task in an unexpected state
ClassifyChunkDropsUnexpected(acc, chunk_task_id, task, timed_out, raised) ==
    LET fail(error) == [acc EXCEPT !.failed_chunks =
                           Append(@, [task_id |-> chunk_task_id, error |-> error])]
    IN CASE timed_out -> fail(<<ErrPart("TaskTimeout", 3600)>>)
         [] ~timed_out /\ raised -> fail(<<ErrPart("Exception", chunk_task_id)>>)
         [] ~timed_out /\ ~raised /\ task.state = "SUCCESS" ->
               IF task.result.status = "failed"
               THEN fail(task.result.error_message)
               ELSE [acc EXCEPT
                       !.chunk_results = Append(@, TagWithChunkInfo(task.result,
                                            ChunkInfoOfTaskInfo(AsyncResultInfo(task)))),
                       !.chunk_result_ids = Append(@, chunk_task_id)]
         [] ~timed_out /\ ~raised /\ task.state = "FAILURE" ->
               fail(task.result.error_message)
         [] OTHER -> acc

\* the lists after chunk task `chunk_task_id` was examined; `raised`: an
\* exception was raised inside the try block that examines a ready task
ClassifyChunk(acc, chunk_task_id, task, timed_out, raised) ==
    LET fail(error) == [acc EXCEPT !.failed_chunks =
                           Append(@, [task_id |-> chunk_task_id, error |-> error])]
    IN CASE timed_out -> fail(<<ErrPart("TaskTimeout", 3600)>>)
         [] ~timed_out /\ raised -> fail(<<ErrPart("Exception", chunk_task_id)>>)
         [] ~timed_out /\ ~raised /\ task.state = "SUCCESS" ->
               IF task.result.status = "failed"
               THEN fail(task.result.error_message)
               ELSE [acc EXCEPT
                       !.chunk_results = Append(@, TagWithChunkInfo(task.result,
                                            ChunkInfoOfTaskInfo(AsyncResultInfo(task)))),
                       !.chunk_result_ids = Append(@, chunk_task_id)]
         [] ~timed_out /\ ~raised /\ task.state = "FAILURE" ->
               fail(task.result.error_message)
         [] OTHER -> fail(<<ErrPart("TaskInState", 0)>>)

\* a fan-in that gives up as soon as one chunk failed
FanInResultStrict(acc, chunk_task_ids) ==
    IF acc.chunk_results = <<>> \/ acc.failed_chunks /= <<>>
    THEN FailedResult(AllChunksFailedMessage(Len(chunk_task_ids), acc.failed_chunks))
    ELSE CatchRaised(merge_chunk_results_from_results(acc.chunk_results))

\* what the task returns once the loop is over
FanInResult(acc, chunk_task_ids) ==
    IF acc.chunk_results = <<>>
    THEN FailedResult(AllChunksFailedMessage(Len(chunk_task_ids), acc.failed_chunks))
    ELSE CatchRaised(merge_chunk_results_from_results(acc.chunk_results))

(***************************************************************************)
(* The system: the API submits documents, a Celery queue feeds a pool of   *)
(* WORKER_CONCURRENCY worker slots.                                        *)
(***************************************************************************)
VARIABLES
    env,      \* the deployment's configuration (environment variables)
    tasks,    \* the result backend and the tasks' local state, by task id
    queue,    \* the messages waiting in the queue, oldest first
    call      \* an operation applied on its own: its arguments and result

vars == <<env, tasks, queue, call>>

NoCall == [fn |-> "", done |-> FALSE]

Envs ==
    [storage_type : {"local", "s3"},
     MINERU_ENABLE_PAGINATION : BOOLEAN,
     MINERU_PAGINATION_THRESHOLD : 0..MaxThreshold,
     MINERU_PAGE_CHUNK_SIZE : 1..MaxChunkSize,
     WORKER_CONCURRENCY : 1..MaxWorkers,
     PYPDFIUM2_AVAILABLE : BOOLEAN]

NoFile == [pages |-> <<>>, suffix |-> ""]
NoOptions == [chunk_info |-> None, enable_pagination |-> None]
NoLists == [chunk_results |-> <<>>, failed_chunks |-> <<>>, chunk_result_ids |-> <<>>]

(***************************************************************************)
(* Storage keys.  A key is the area (temporary or output bucket), the      *)
(* scope that makes it (a clock reading for an upload, a task id, or a     *)
(* task id with a page range) and the name of the file.                    *)
(***************************************************************************)
\* f"upload_{datetime.now().strftime('%Y%m%d_%H%M%S_%f')}{suffix}"
UploadKey(stamp, suffix) ==
    [area |-> "temp", dir |-> "upload", scope |-> <<stamp>>, name |-> suffix]

\* f"splits/{parent_task_id}/{parent_task_id}_chunk_{i+1}_{end_page}.pdf"
ChunkKey(parent_task_id, chunk) ==
    [area |-> "temp", dir |-> "splits",
     scope |-> <<parent_task_id, chunk.start_page, chunk.end_page>>, name |-> "pdf"]

\* f"{task_id}/{relative_path}" in the output area
OutputKey(task_id, name) ==
    [area |-> "output", dir |-> "", scope |-> task_id, name |-> name]

NoKey == [area |-> "", dir |-> "", scope |-> <<>>, name |-> ""]

\* the id _handle_split_and_parse makes for a chunk it parses itself:
\* f"{parent_task_id}_{chunk_start_page}_{chunk_end_page}_{uuid}"
SyncChunkTaskId(parent_task_id, chunk) ==
    <<parent_task_id, chunk.start_page, chunk.end_page>>

\* the output files of one parse: the engine's markdown and, for a PDF or an
\* image, its content list
ParseOutputKeys(task_id, file, outcome) ==
    IF outcome /= "ok" THEN {}
    ELSE {OutputKey(task_id, "md")}
            \cup (IF get_file_type(file) = "pdf_image"
                  THEN {OutputKey(task_id, "content_list.json")} ELSE {})

\* the output files of a merge: result.md and, when there are records, the
\* merged content list
MergeOutputKeys(task_id, result) ==
    IF result.status /= "completed" THEN {}
    ELSE {OutputKey(task_id, "result.md")}
            \cup (IF result.content_list /= NoContentList
                  THEN {OutputKey(task_id, "content_list.json")} ELSE {})

\* a task as send_task leaves it: PENDING, in the queue.  parent, path, probed,
\* chunks, outcomes, extract_failed, writes, deletes, seen and attempts record
\* what happened, for the properties
NewTask(name, file_path, file, options, chunk_task_ids, parent) ==
    [name |-> name, file_path |-> file_path, file |-> file, options |-> options,
     chunk_task_ids |-> chunk_task_ids, parent |-> parent,
     state |-> "PENDING", pc |-> "queued",
     meta |-> [status |-> "", chunk_count |-> 0, merge_task_id |-> None],
     result |-> NoResult, idx |-> 0, lists |-> NoLists,
     path |-> "", probed |-> 0, chunks |-> <<>>, outcomes |-> <<>>,
     extract_failed |-> 0, writes |-> {}, deletes |-> {}, seen |-> <<"PENDING">>,
     revoke_sent |-> FALSE, executing_at_cancel |-> {}, raised_on |-> {},
     attempts |-> <<>>]

\* self.update_state(state=states.STARTED, meta={...})
update_state(task, meta) ==
    [task EXCEPT !.state = "STARTED", !.meta = meta, !.seen = Append(@, meta.status)]

\* the uploads explored: a PDF of some pages, or a file of another format
\* (a single unit of content)
Uploads ==
    {[pages |-> PdfDocument(n), suffix |-> "pdf"] : n \in 1..MaxPages}
        \cup {[pages |-> PdfDocument(1), suffix |-> "docx"]}

TaskIds == DOMAIN tasks
Running == {t \in TaskIds : tasks[t].state = "STARTED"}
TopLevel == {t \in TaskIds : tasks[t].parent = 0}

Init ==
    /\ env \in Envs
    /\ tasks = <<>>
    /\ queue = <<>>
    /\ call = NoCall

(***************************************************************************)
(* get_task_status of the API: what a status query answers for a task      *)
(***************************************************************************)
\* status_mapping.get(result.status, result.status.lower())
status_mapping(state) ==
    CASE state = "PENDING" -> "pending"
      [] state = "STARTED" -> "processing"
      [] state = "SUCCESS" -> "completed"
      [] state = "FAILURE" -> "failed"
      [] state = "RETRY" -> "processing"
      [] state = "REVOKED" -> "cancelled"
      [] OTHER -> state

\* the answer: the status, the markdown of a successful task that returned
\* data, the error of a failed task, and of the progress metadata of a task
\* in progress the keys file_name, backend and started_at
get_task_status(task) ==
    [status |-> status_mapping(task.state),
     markdown_content |->
         IF task.state = "SUCCESS" /\ task.result.status = "completed"
         THEN Some(task.result.content) ELSE None,
     error_message |->
         IF task.state = "FAILURE" THEN Some(task.result.error_message) ELSE None,
     progress_keys |->
         IF task.state = "STARTED" /\ task.meta.status /= ""
         THEN {"file_name", "backend", "started_at"} ELSE {},
     chunk_count |-> None,
     merge_task_id |-> None]

\* the clock reading of the latest upload (0: none yet)
LastStamp ==
    IF TopLevel = {} THEN 0
    ELSE CHOOSE n \in {tasks[t].file_path.scope[1] : t \in TopLevel} :
             \A t \in TopLevel : tasks[t].file_path.scope[1] <= n

\* the readings datetime.now() may give to the next upload: the clock has
\* advanced since the latest upload, or it has not
ClockReadings == {LastStamp, LastStamp + 1} \ {0}

\* submit_task of the API: saves the upload under a key made from the clock
\* and sends mineru.parse_document
Submit(max_docs, options) ==
    /\ Cardinality(TopLevel) < max_docs /\ Len(tasks) < MaxTasks
    /\ \E file \in Uploads, stamp \in ClockReadings :
          /\ tasks' = Append(tasks, NewTask("parse_document", UploadKey(stamp, file.suffix),
                                            file, options, <<>>, 0))
          /\ queue' = Append(queue, Len(tasks) + 1)
    /\ UNCHANGED <<env, call>>

SubmitTask == Submit(MaxDocs, NoOptions)

Finish(task, state, result) ==
    [task EXCEPT !.state = state, !.result = result, !.pc = "done",
                 !.seen = Append(@, state)]

\* a free worker slot takes the oldest message; track_started marks it
\* STARTED; a message whose id was revoked is discarded instead
WorkerPickup ==
    /\ queue /= <<>>
    /\ Cardinality(Running) < env.WORKER_CONCURRENCY
    /\ tasks' = [tasks EXCEPT ![Head(queue)] =
                    IF @.revoke_sent
                    THEN Finish(@, "REVOKED", Raised(<<ErrPart("TaskRevokedError", 0)>>))
                    ELSE [@ EXCEPT !.state = "STARTED", !.pc = "run",
                                   !.seen = Append(@, "STARTED")]]
    /\ queue' = Tail(queue)
    /\ UNCHANGED <<env, call>>

\* parse_document_task, direct path: one parse; the worker may be killed
\* (hard time limit, memory limit) before it returns
ParseDirect(t) ==
    /\ tasks[t].pc = "run" /\ tasks[t].name = "parse_document"
    /\ \E probe_ok \in BOOLEAN, outcome \in {"ok", "failed", "killed"} :
          /\ ~UsePagination(env, tasks[t].file, tasks[t].options, probe_ok)
          /\ LET task == [update_state(tasks[t], [tasks[t].meta EXCEPT !.status = "processing"])
                             EXCEPT
                             !.path = "direct",
                             !.outcomes = <<outcome>>,
                             !.probed = TotalPages(env, tasks[t].file, tasks[t].options, probe_ok)]
                 parsed == [task EXCEPT
                               !.writes = ParseOutputKeys(<<t>>, task.file, outcome),
                               !.deletes = {task.file_path}]
             IN tasks' = [tasks EXCEPT ![t] =
                    IF outcome = "killed"
                    THEN Finish(task, "FAILURE", Raised(<<ErrPart("WorkerLost", 0)>>))
                    ELSE Finish(parsed, "SUCCESS", execute_parse_document(task.file, outcome))]
    /\ UNCHANGED <<env, queue, call>>

\* the task once it has decided to split and split_pdf_file has returned
AfterSplit(t, probe_ok, chunks) ==
    [tasks[t] EXCEPT
        !.path = "split",
        !.probed = TotalPages(env, tasks[t].file, tasks[t].options, probe_ok),
        !.chunks = chunks,
        !.writes = {ChunkKey(t, chunks[k]) : k \in 1..Len(chunks)}]

\* parse_document_task, split path: split_pdf_file raises while it extracts
\* or saves range k (or at once, when pypdfium2 is missing); the exception
\* leaves _handle_split_and_parse and the task
SplitFails(t) ==
    /\ tasks[t].pc = "run" /\ tasks[t].name = "parse_document"
    /\ \E probe_ok \in BOOLEAN :
          /\ UsePagination(env, tasks[t].file, tasks[t].options, probe_ok)
          /\ LET chunks == split_pdf_file(tasks[t].file.pages, env.MINERU_PAGE_CHUNK_SIZE)
             IN \E k \in 1..Len(chunks) :
                   tasks' = [tasks EXCEPT ![t] =
                       Finish([AfterSplit(t, probe_ok, SubSeq(chunks, 1, k - 1))
                                  EXCEPT !.extract_failed = k],
                              "FAILURE", Raised(<<ErrPart("SplitError", k)>>))]
    /\ UNCHANGED <<env, queue, call>>

\* parse_document_task, split path with local storage: split, then the state
\* 'splitting_and_parsing' with the chunk count
SplitLocal(t) ==
    /\ tasks[t].pc = "run" /\ tasks[t].name = "parse_document"
    /\ env.storage_type = "local"
    /\ \E probe_ok \in BOOLEAN :
          /\ UsePagination(env, tasks[t].file, tasks[t].options, probe_ok)
          /\ LET chunks == split_pdf_file(tasks[t].file.pages, env.MINERU_PAGE_CHUNK_SIZE)
                 self == AfterSplit(t, probe_ok, chunks)
             IN tasks' = [tasks EXCEPT ![t] =
                    [update_state(self, [status |-> "splitting_and_parsing",
                                         chunk_count |-> Len(chunks),
                                         merge_task_id |-> None])
                       EXCEPT !.pc = "parsing"]]
    /\ UNCHANGED <<env, queue, call>>

\* the files the chunk loop writes and deletes: each parse writes its output
\* under the chunk's own id and deletes the chunk's file
SyncChunkWrites(t, chunks, outcomes) ==
    UNION {ParseOutputKeys(SyncChunkTaskId(t, chunks[k]), ChunkFile(chunks[k]), outcomes[k]) :
              k \in 1..Len(chunks)}

\* a parse that deletes its input file only when it has succeeded
SyncChunkDeletesParsedOnly(t, attempts, outcomes) ==
    {ChunkKey(t, attempts[k]) : k \in {k \in 1..Len(attempts) : outcomes[k] = "ok"}}

\* the files the chunk loop deletes: the `finally` of _execute_parse_document
\* deletes the file the call was given, whether the parse succeeded or raised
SyncChunkDeletes(t, attempts, outcomes) ==
    {ChunkKey(t, attempts[k]) : k \in 1..Len(attempts)}

\* the split path with local storage goes on: every chunk is parsed in the
\* task, the upload is deleted, the results are merged
SplitAndParseLocal(t) ==
    /\ tasks[t].pc = "parsing"
    /\ LET chunks == tasks[t].chunks
       IN \E outcomes \in [1..Len(chunks) -> {"ok", "failed"}] :
             LET result == handle_split_sync(chunks, outcomes)
                 attempts == SyncLists(chunks, outcomes).attempts
             IN tasks' = [tasks EXCEPT ![t] =
                    Finish([tasks[t] EXCEPT
                               !.outcomes = outcomes,
                               !.attempts = attempts,
                               !.writes = @ \cup SyncChunkWrites(t, chunks, outcomes)
                                            \cup MergeOutputKeys(<<t>>, result),
                               !.deletes = SyncChunkDeletes(t, attempts, outcomes)
                                              \cup {tasks[t].file_path}],
                           IF result.status = "exception" THEN "FAILURE" ELSE "SUCCESS",
                           result)]
    /\ UNCHANGED <<env, queue, call>>

\* a dispatch that sends the chunk tasks from the last chunk to the first
ChunkTasksReversed(t, chunks) ==
    [k \in 1..Len(chunks) |->
        LET chunk == chunks[Len(chunks) + 1 - k]
        IN NewTask("parse_document", ChunkKey(t, chunk), ChunkFile(chunk),
                   [tasks[t].options EXCEPT !.chunk_info =
                       Some([start_page |-> chunk.start_page,
                             end_page |-> chunk.end_page,
                             page_count |-> chunk.page_count])],
                   <<>>, t)]

\* the chunk tasks and the fan-in task sent by the distributed split path
ChunkTasks(t, chunks) ==
    [k \in 1..Len(chunks) |->
        NewTask("parse_document", ChunkKey(t, chunks[k]), ChunkFile(chunks[k]),
                [tasks[t].options EXCEPT !.chunk_info =
                    Some([start_page |-> chunks[k].start_page,
                          end_page |-> chunks[k].end_page,
                          page_count |-> chunks[k].page_count])],
                <<>>, t)]

\* parse_document_task, split path with shared storage: one task per chunk,
\* then the fan-in task, then the task polls for the fan-in task
SplitAndDispatch(t) ==
    /\ tasks[t].pc = "run" /\ tasks[t].name = "parse_document"
    /\ env.storage_type /= "local"
    /\ \E probe_ok \in BOOLEAN :
       /\ UsePagination(env, tasks[t].file, tasks[t].options, probe_ok)
       /\ LET chunks == split_pdf_file(tasks[t].file.pages, env.MINERU_PAGE_CHUNK_SIZE)
              n == Len(chunks)
              chunk_task_ids == [k \in 1..n |-> Len(tasks) + k]
              merge_task_id == Len(tasks) + n + 1
              merge_task == NewTask("merge_chunk_results", NoKey, NoFile, NoOptions,
                                    chunk_task_ids, t)
              self == [update_state(AfterSplit(t, probe_ok, chunks),
                                    [status |-> "splitting_and_parsing", chunk_count |-> n,
                                     merge_task_id |-> Some(merge_task_id)])
                         EXCEPT !.pc = "polling"]
          IN /\ Len(tasks) + n + 1 <= MaxTasks
             /\ tasks' = [tasks EXCEPT ![t] = self] \o ChunkTasks(t, chunks) \o <<merge_task>>
             /\ queue' = queue \o chunk_task_ids \o <<merge_task_id>>
    /\ UNCHANGED <<env, call>>

MergeTaskOf(t) == CHOOSE m \in tasks[t].meta.merge_task_id : TRUE

\* the poll loop of the split path ends: the fan-in task is ready
AwaitMerge(t) ==
    /\ tasks[t].pc = "polling"
    /\ Ready(tasks[MergeTaskOf(t)])
    /\ LET merge == tasks[MergeTaskOf(t)]
       IN tasks' = [tasks EXCEPT ![t] =
              IF merge.state = "SUCCESS"
              THEN Finish([tasks[t] EXCEPT !.deletes = {tasks[t].file_path}],
                          "SUCCESS", merge.result)
              ELSE Finish(tasks[t], "FAILURE",
                          Raised(<<ErrPart("MergeTaskFailed", 0)>> \o merge.result.error_message))]
    /\ UNCHANGED <<env, queue, call>>

\* a poll loop that returns what it has when the time is over
AwaitMergeTimeoutReturns(t) ==
    /\ tasks[t].pc = "polling"
    /\ ~Ready(tasks[MergeTaskOf(t)])
    /\ tasks' = [tasks EXCEPT ![t] =
           Finish(tasks[t], "SUCCESS", tasks[MergeTaskOf(t)].result)]
    /\ UNCHANGED <<env, queue, call>>

\* the poll loop of the split path ends: 7200 seconds have passed
AwaitMergeTimeout(t) ==
    /\ tasks[t].pc = "polling"
    /\ ~Ready(tasks[MergeTaskOf(t)])
    /\ tasks' = [tasks EXCEPT ![t] =
           Finish(tasks[t], "FAILURE", Raised(<<ErrPart("MergeTaskTimedOut", 7200)>>))]
    /\ UNCHANGED <<env, queue, call>>

\* merge_chunk_results_task starts: state 'merging', then the await loop
MergeChunkResultsTask(t) ==
    /\ tasks[t].pc = "run" /\ tasks[t].name = "merge_chunk_results"
    /\ tasks' = [tasks EXCEPT ![t] =
           [update_state(tasks[t], [status |-> "merging",
                                    chunk_count |-> Len(tasks[t].chunk_task_ids),
                                    merge_task_id |-> None])
              EXCEPT !.pc = "awaiting", !.idx = 1]]
    /\ UNCHANGED <<env, queue, call>>

\* an await loop that records the timeout and polls the same chunk task again
AwaitStepRetry(t, timed_out, raised) ==
    LET task == tasks[t]
        chunk_task_id == task.chunk_task_ids[task.idx]
        lists == ClassifyChunk(task.lists, chunk_task_id, tasks[chunk_task_id],
                               timed_out, raised)
        next == [task EXCEPT !.lists = lists, !.idx = IF timed_out THEN @ ELSE @ + 1,
                             !.raised_on = IF raised THEN @ \cup {chunk_task_id} ELSE @]
    IN tasks' = [tasks EXCEPT ![t] =
           IF task.idx = Len(task.chunk_task_ids) /\ ~timed_out
           THEN Finish(next, "SUCCESS", FanInResult(lists, task.chunk_task_ids))
           ELSE next]

\* an await loop that lets the exception of an examination reach the
\* handler of the task, which returns a failed result
AwaitStepRaiseEscapes(t, timed_out, raised) ==
    LET task == tasks[t]
        chunk_task_id == task.chunk_task_ids[task.idx]
        lists == ClassifyChunk(task.lists, chunk_task_id, tasks[chunk_task_id],
                               timed_out, FALSE)
        next == [task EXCEPT !.lists = lists, !.idx = @ + 1]
        result == FanInResult(lists, task.chunk_task_ids)
    IN tasks' = [tasks EXCEPT ![t] =
           IF raised
           THEN Finish([task EXCEPT !.raised_on = @ \cup {chunk_task_id}], "SUCCESS",
                       FailedResult(<<ErrPart("Exception", chunk_task_id)>>))
           ELSE IF task.idx = Len(task.chunk_task_ids)
           THEN Finish([next EXCEPT !.writes = MergeOutputKeys(<<t>>, result)],
                       "SUCCESS", result)
           ELSE next]

\* one turn of the await loop; after the last one the task merges and returns
AwaitStep(t, timed_out, raised) ==
    LET task == tasks[t]
        chunk_task_id == task.chunk_task_ids[task.idx]
        lists == ClassifyChunk(task.lists, chunk_task_id, tasks[chunk_task_id],
                               timed_out, raised)
        next == [task EXCEPT !.lists = lists, !.idx = @ + 1,
                             !.raised_on = IF raised THEN @ \cup {chunk_task_id} ELSE @]
        result == FanInResult(lists, task.chunk_task_ids)
    IN tasks' = [tasks EXCEPT ![t] =
           IF task.idx = Len(task.chunk_task_ids)
           THEN Finish([next EXCEPT !.writes = MergeOutputKeys(<<t>>, result)],
                       "SUCCESS", result)
           ELSE next]

\* the chunk task polled for is ready
AwaitChunk(t) ==
    /\ tasks[t].pc = "awaiting"
    /\ Ready(tasks[tasks[t].chunk_task_ids[tasks[t].idx]])
    /\ AwaitStep(t, FALSE, FALSE)
    /\ UNCHANGED <<env, queue, call>>

\* the chunk task polled for is ready and its examination raises
AwaitChunkRaises(t) ==
    /\ tasks[t].pc = "awaiting"
    /\ Ready(tasks[tasks[t].chunk_task_ids[tasks[t].idx]])
    /\ AwaitStep(t, FALSE, TRUE)
    /\ UNCHANGED <<env, queue, call>>

\* the chunk task polled for is not ready after 3600 seconds
AwaitChunkTimeout(t) ==
    /\ tasks[t].pc = "awaiting"
    /\ ~Ready(tasks[tasks[t].chunk_task_ids[tasks[t].idx]])
    /\ AwaitStep(t, TRUE, FALSE)
    /\ UNCHANGED <<env, queue, call>>

\* a task that waits is killed by the hard time limit (time_limit, task_time_limit)
TimeLimitExceeded(t) ==
    /\ tasks[t].pc \in {"polling", "awaiting"}
    /\ tasks' = [tasks EXCEPT ![t] =
           Finish(tasks[t], "FAILURE", Raised(<<ErrPart("TimeLimitExceeded", 7200)>>))]
    /\ UNCHANGED <<env, queue, call>>

Next ==
    \/ SubmitTask
    \/ WorkerPickup
    \/ \E t \in TaskIds : ParseDirect(t)
    \/ \E t \in TaskIds : SplitFails(t)
    \/ \E t \in TaskIds : SplitLocal(t)
    \/ \E t \in TaskIds : SplitAndParseLocal(t)
    \/ \E t \in TaskIds : SplitAndDispatch(t)
    \/ \E t \in TaskIds : AwaitMerge(t)
    \/ \E t \in TaskIds : AwaitMergeTimeout(t)
    \/ \E t \in TaskIds : MergeChunkResultsTask(t)
    \/ \E t \in TaskIds : AwaitChunk(t)
    \/ \E t \in TaskIds : AwaitChunkRaises(t)
    \/ \E t \in TaskIds : AwaitChunkTimeout(t)
    \/ \E t \in TaskIds : TimeLimitExceeded(t)

Spec == Init /\ [][Next]_vars

(***************************************************************************)
(* DELETE /api/v1/tasks/{task_id}: cancel_task                             *)
(***************************************************************************)
\* the chunk tasks a document task sent
ChunkTasksOf(t) ==
    {c \in TaskIds : tasks[c].parent = t /\ tasks[c].name = "parse_document"}

\* celery_app.control.revoke(task_id, terminate=True): the id is revoked; a
\* worker that executes the task terminates it, a worker that receives its
\* message later discards it.  executing_at_cancel remembers the chunk tasks
\* of the document that were executing when the request was served.
cancel_task(task_id) ==
    /\ ~tasks[task_id].revoke_sent
    /\ tasks' = [tasks EXCEPT ![task_id] =
          LET task == [@ EXCEPT !.revoke_sent = TRUE,
                                !.executing_at_cancel =
                                    {c \in ChunkTasksOf(task_id) : tasks[c].state = "STARTED"}]
          IN IF @.state = "STARTED"
             THEN Finish(task, "REVOKED", Raised(<<ErrPart("Terminated", 0)>>))
             ELSE task]
    /\ UNCHANGED <<env, queue, call>>

CancelTask == \E task_id \in TopLevel : cancel_task(task_id)

NextCancel == Next \/ CancelTask

SpecCancel == Init /\ [][NextCancel]_vars

(***************************************************************************)
(* DELETE /api/v1/tasks/{task_id} with the id of a chunk task: the         *)
(* endpoint revokes whatever id it is given                                *)
(***************************************************************************)
CancelChunkTask ==
    \E task_id \in {c \in TaskIds : tasks[c].parent /= 0 /\ tasks[c].name = "parse_document"} :
        cancel_task(task_id)

NextFanIn == Next \/ CancelChunkTask

SpecFanIn == Init /\ [][NextFanIn]_vars

(***************************************************************************)
(* parse_document_task when its input file is not there: with local        *)
(* storage download_to_local returns the path it was given, and the task   *)
(* waits MINERU_WAIT_FOR_INPUT_SECONDS for the file to appear.  A file     *)
(* that appears in time is handled by the other actions.                   *)
(***************************************************************************)
\* a task that goes on with the direct path when the wait is over
InputFileNotFoundParses(t) ==
    /\ tasks[t].pc = "run" /\ tasks[t].name = "parse_document"
    /\ env.storage_type = "local"
    /\ \E probe_ok \in BOOLEAN :
          tasks' = [tasks EXCEPT ![t] =
              Finish([tasks[t] EXCEPT
                         !.path = "missing",
                         !.probed = get_pdf_page_count(tasks[t].file, env.PYPDFIUM2_AVAILABLE,
                                                       probe_ok),
                         !.outcomes = <<"failed">>,
                         !.deletes = {tasks[t].file_path}],
                     "SUCCESS", execute_parse_document(tasks[t].file, "failed"))]
    /\ UNCHANGED <<env, queue, call>>

\* the file is still absent when the wait is over: the failure record is
\* returned at once
InputFileNotFound(t) ==
    /\ tasks[t].pc = "run" /\ tasks[t].name = "parse_document"
    /\ env.storage_type = "local"
    /\ tasks' = [tasks EXCEPT ![t] =
           Finish([tasks[t] EXCEPT !.path = "missing"], "SUCCESS",
                  FailedResult(<<ErrPart("InputFileNotFound", 0)>>))]
    /\ UNCHANGED <<env, queue, call>>

NextInput == Next \/ \E t \in TaskIds : InputFileNotFound(t)

SpecInput == Init /\ [][NextInput]_vars

(***************************************************************************)
(* parse_document_task called by any client of the queue, which may set    *)
(* the option enable_pagination.                                           *)
(***************************************************************************)
SendParseDocument ==
    \E ep \in {None, Some(TRUE), Some(FALSE)} :
        Submit(MaxDocs, [chunk_info |-> None, enable_pagination |-> ep])

NextDecision ==
    \/ SendParseDocument
    \/ WorkerPickup
    \/ \E t \in TaskIds : ParseDirect(t)
    \/ \E t \in TaskIds : SplitFails(t)
    \/ \E t \in TaskIds : SplitLocal(t)
    \/ \E t \in TaskIds : SplitAndParseLocal(t)
    \/ \E t \in TaskIds : SplitAndDispatch(t)

SpecDecision == Init /\ [][NextDecision]_vars

(***************************************************************************)
(* Several uploads that arrive close to each other.                        *)
(***************************************************************************)
SubmitUpload == Submit(MaxUploads, NoOptions)

NextUploads ==
    \/ SubmitUpload
    \/ WorkerPickup
    \/ \E t \in TaskIds : ParseDirect(t)
    \/ \E t \in TaskIds : SplitFails(t)
    \/ \E t \in TaskIds : SplitLocal(t)
    \/ \E t \in TaskIds : SplitAndParseLocal(t)
    \/ \E t \in TaskIds : SplitAndDispatch(t)
    \/ \E t \in TaskIds : AwaitMerge(t)
    \/ \E t \in TaskIds : AwaitMergeTimeout(t)
    \/ \E t \in TaskIds : MergeChunkResultsTask(t)
    \/ \E t \in TaskIds : AwaitChunk(t)
    \/ \E t \in TaskIds : AwaitChunkRaises(t)
    \/ \E t \in TaskIds : AwaitChunkTimeout(t)
    \/ \E t \in TaskIds : TimeLimitExceeded(t)

SpecUploads == Init /\ [][NextUploads]_vars

(***************************************************************************)
(* split_pdf_file applied on its own to any document and chunk size up to   *)
(* the bounds, and to a document of 523 pages with the chunk size 50.       *)
(***************************************************************************)
IdleEnv == CHOOSE e \in Envs : TRUE

InitSplit ==
    /\ env = IdleEnv /\ tasks = <<>> /\ queue = <<>>
    /\ \E input \in ((1..MaxSplitPages) \X (1..MaxSplitChunk)) \cup {<<523, 50>>} :
          call = [fn |-> "split_pdf_file", done |-> FALSE,
                  total_pages |-> input[1], chunk_size |-> input[2], result |-> <<>>]

ApplySplit ==
    /\ call.fn = "split_pdf_file" /\ ~call.done
    /\ call' = [call EXCEPT !.done = TRUE,
                            !.result = split_pdf_file(PdfDocument(call.total_pages),
                                                      call.chunk_size)]
    /\ UNCHANGED <<env, tasks, queue>>

SpecSplit == InitSplit /\ [][ApplySplit]_vars

(***************************************************************************)
(* _merge_chunk_results_from_results applied on its own to the results of  *)
(* up to MaxMergeChunks chunks of one document split every 50 pages, in    *)
(* any order of arrival.  Chunk k holds one image and a content list of    *)
(* any shape; its results carry their page range (as the local path tags   *)
(* them) or not (as the engine returns them).                              *)
(***************************************************************************)
DefaultChunkSize == 50

StartOfChunk(k) == (k - 1) * DefaultChunkSize + 1

Shapes == {"none", "list", "pages", "items", "other"}

\* three records of chunk k: one with every page key, one with page_idx
\* only, one with no page key
SampleRecords(k) ==
    <<ContentRecord(k, 1, Some(0), Some(1), Some(1), Some(0), Some(1)),
      ContentRecord(k, 2, Some(3), None, None, None, None),
      ContentRecord(k, 3, None, None, None, None, None)>>

SampleContentList(k, shape) ==
    IF shape = "none" THEN NoContentList
    ELSE [shape |-> shape, meta |-> k, iterable |-> TRUE,
          records |-> IF shape = "other" THEN <<>> ELSE SampleRecords(k)]

\* the images of chunk k of n: one image whose filename sorts against the
\* page order, one image under a filename that every chunk uses, the very
\* same image in every chunk, or no image
ImageNamings == {"distinct", "same", "identical", "none"}

SampleImages(k, n, naming) ==
    CASE naming = "distinct" -> <<[filename |-> n + 1 - k, data |-> k]>>
      [] naming = "same" -> <<[filename |-> 1, data |-> k]>>
      [] naming = "identical" -> <<[filename |-> 1, data |-> 0]>>
      [] OTHER -> <<>>

SampleChunkResult(k, shape, images, tagged) ==
    [CompletedResult(IF shape = "none" THEN "MarkItDown" ELSE "MinerU", <<k>>,
                     images, SampleContentList(k, shape))
        EXCEPT !.start_page = IF tagged THEN Some(StartOfChunk(k)) ELSE None,
               !.end_page = IF tagged THEN Some(StartOfChunk(k + 1) - 1) ELSE None]

Perms(n) == {f \in [1..n -> 1..n] : \A i, j \in 1..n : f[i] = f[j] => i = j}

\* what is wrong with the content list of one chunk: nothing, the value
\* under 'pages' / 'items' is not a list (None), or the page_idx of the
\* first record is not a number (a string)
NoDefect == [chunk |-> 0, kind |-> "none"]

DefectKinds == {"not_iterable", "not_a_number"}

Defective(cl, kind) ==
    CASE kind = "not_iterable" -> [cl EXCEPT !.iterable = FALSE, !.records = <<>>]
      [] kind = "not_a_number" -> [cl EXCEPT !.records[1].non_numeric = {"page_idx"}]
      [] OTHER -> cl

\* the kinds of defect a content list of the given shape can have
DefectsOf(shape) ==
    CASE shape = "list" -> {"not_a_number"}
      [] shape \in {"pages", "items"} -> DefectKinds
      [] OTHER -> {}

MergeCall(n, tagged, naming, shapes, arrival, defect) ==
    [fn |-> "merge_chunk_results", done |-> FALSE, again |-> FALSE, n |-> n,
     tagged |-> tagged, naming |-> naming, shapes |-> shapes, arrival |-> arrival,
     defect |-> defect,
     chunk_results |->
        [i \in 1..n |->
            LET k == arrival[i]
                r == SampleChunkResult(k, shapes[k], SampleImages(k, n, naming), tagged)
            IN IF defect.chunk = k
               THEN [r EXCEPT !.content_list = Defective(@, defect.kind)]
               ELSE r],
     input_after |-> <<>>, result |-> NoResult, result_again |-> NoResult]

InitMerge ==
    /\ env = IdleEnv /\ tasks = <<>> /\ queue = <<>>
    /\ \E n \in 1..MaxMergeChunks, tagged \in BOOLEAN, naming \in ImageNamings :
       \E shapes \in [1..n -> Shapes], arrival \in Perms(n) :
          call = MergeCall(n, tagged, naming, shapes, arrival, NoDefect)

\* a chunk-result list whose records were shifted where they stand
ChunkResultsShiftedInPlace(chunk_results) ==
    LET sorted == SortChunkResults(chunk_results)
    IN [i \in 1..Len(sorted) |->
          IF Truthy(sorted[i].content_list)
          THEN [sorted[i] EXCEPT !.content_list.records =
                   ChunkRecords(sorted[i].content_list, StartPageOf(sorted[i]) - 1)]
          ELSE sorted[i]]

\* the caller's list after the call: chunk_results.sort(...) orders it in
\* place; every record is copied (item.copy()) before it is shifted and the
\* images are copied into a new list, so the elements are as they were
chunk_results_after_merge(chunk_results) == SortChunkResults(chunk_results)

ApplyMerge ==
    /\ call.fn = "merge_chunk_results" /\ ~call.done
    /\ call' = [call EXCEPT !.done = TRUE,
                            !.result = merge_chunk_results_from_results(call.chunk_results),
                            !.input_after = chunk_results_after_merge(call.chunk_results)]
    /\ UNCHANGED <<env, tasks, queue>>

\* the merge is run once more on the list the first run left behind
ApplyMergeAgain ==
    /\ call.fn = "merge_chunk_results" /\ call.done /\ ~call.again
    /\ call' = [call EXCEPT !.again = TRUE,
                            !.result_again = merge_chunk_results_from_results(call.input_after),
                            !.input_after = chunk_results_after_merge(call.input_after)]
    /\ UNCHANGED <<env, tasks, queue>>

NextMerge == ApplyMerge \/ ApplyMergeAgain

SpecMerge == InitMerge /\ [][NextMerge]_vars

\* the same merge given chunk results of which one carries a defective
\* content list
InitMalformed ==
    /\ env = IdleEnv /\ tasks = <<>> /\ queue = <<>>
    /\ \E n \in 1..MaxMergeChunks, tagged \in BOOLEAN :
       \E shapes \in [1..n -> Shapes], arrival \in Perms(n), d \in 1..n :
       \E kind \in DefectsOf(shapes[d]) :
          call = MergeCall(n, tagged, "distinct", shapes, arrival,
                           [chunk |-> d, kind |-> kind])

SpecMalformed == InitMalformed /\ [][NextMerge]_vars

(***************************************************************************)
(* Properties                                                              *)
(***************************************************************************)
RECURSIVE SumPageCount(_)
SumPageCount(chunks) ==
    IF chunks = <<>> THEN 0 ELSE Head(chunks).page_count + SumPageCount(Tail(chunks))

\* C1: for every totalPages >= 1 and chunk size >= 1 the chunks returned by
\* split_pdf_file are in ascending order, start at page 1, each starts at the
\* previous end_page + 1, the last ends at totalPages, and the page counts sum
\* to totalPages.
C1_SplitContiguous ==
    (call.fn = "split_pdf_file" /\ call.done) =>
        LET chunks == call.result
            n == Len(chunks)
        IN /\ n >= 1
           /\ chunks[1].start_page = 1
           /\ \A k \in 1..n : chunks[k].start_page <= chunks[k].end_page
           /\ \A k \in 1..(n - 1) : chunks[k + 1].start_page = chunks[k].end_page + 1
           /\ chunks[n].end_page = call.total_pages
           /\ SumPageCount(chunks) = call.total_pages

\* a split into at least three chunks whose last range is truncated
C1_Witness ==
    /\ call.fn = "split_pdf_file" /\ call.done
    /\ Len(call.result) >= 3
    /\ call.result[Len(call.result)].page_count < call.chunk_size

ParseTasks == {t \in TaskIds : tasks[t].name = "parse_document"}

\* C2: parse_document_task takes the split path if and only if the option
\* enable_pagination is not False, MINERU_ENABLE_PAGINATION is true, the
\* document is a PDF and the probed page count is strictly greater than the
\* threshold; in every other case it parses directly.
C2_SplitDecision ==
    \A t \in ParseTasks :
        tasks[t].path /= "" =>
            LET all_four ==
                    /\ tasks[t].options.enable_pagination /= Some(FALSE)
                    /\ env.MINERU_ENABLE_PAGINATION
                    /\ tasks[t].file.suffix = "pdf"
                    /\ tasks[t].probed > env.MINERU_PAGINATION_THRESHOLD
            IN /\ all_four => tasks[t].path = "split"
               /\ ~all_four => tasks[t].path = "direct"

\* a PDF whose page count equals the threshold was parsed directly although
\* the caller set enable_pagination to True, and another task took the split path
C2_Witness ==
    \E t \in ParseTasks :
        /\ tasks[t].path = "direct"
        /\ tasks[t].options.enable_pagination = Some(TRUE)
        /\ env.MINERU_ENABLE_PAGINATION
        /\ tasks[t].file.suffix = "pdf"
        /\ tasks[t].probed = env.MINERU_PAGINATION_THRESHOLD

C2_WitnessSplit ==
    \E t \in ParseTasks :
        /\ tasks[t].path = "split"
        /\ tasks[t].probed = env.MINERU_PAGINATION_THRESHOLD + 1

MergeDone == call.fn = "merge_chunk_results" /\ call.done

\* C4: when the merge is given chunk results tagged with their start_page,
\* every record that came from a chunk starting at page s has in the merged
\* output its chunk-relative page_idx plus (s - 1), for the flat list, the
\* wrapper with pages and the wrapper with items; page_idx 3 of the chunk
\* starting at page 51 becomes 53.
C4_PageOffset ==
    (MergeDone /\ call.tagged) =>
        LET out == call.result.content_list.records
        IN /\ \A i \in 1..Len(out) :
                 out[i].page_idx =
                     {p + (StartOfChunk(out[i].id) - 1) :
                          p \in SampleRecords(out[i].id)[out[i].n].page_idx}
           /\ \A k \in 1..call.n :
                 call.shapes[k] \in {"list", "pages", "items"} =>
                     \A j \in 1..Len(SampleRecords(k)) :
                         \E i \in 1..Len(out) : out[i].id = k /\ out[i].n = j

\* the three shapes were merged, and the record with page_idx 3 of the chunk
\* that starts at page 51 has page_idx 53
C4_Witness ==
    /\ MergeDone /\ call.tagged
    /\ {call.shapes[k] : k \in 1..call.n} = {"list", "pages", "items"}
    /\ StartOfChunk(2) = 51
    /\ \E i \in 1..Len(call.result.content_list.records) :
          LET r == call.result.content_list.records[i]
          IN r.id = 2 /\ r.n = 2 /\ r.page_idx = Some(53)

Permuted(seq, perm) == [i \in 1..Len(seq) |-> seq[perm[i]]]

\* C8: feeding the merge the same chunk results in any permutation yields an
\* identical merged result (markdown, images, structured content, parse_method).
C8_OrderIndependent ==
    MergeDone =>
        \A perm \in Perms(call.n) :
            merge_chunk_results_from_results(Permuted(call.chunk_results, perm))
                = call.result

\* the same, for chunk results that carry their start_page
C8_OrderIndependentTagged ==
    (MergeDone /\ call.tagged) =>
        \A perm \in Perms(call.n) :
            merge_chunk_results_from_results(Permuted(call.chunk_results, perm))
                = call.result

(***************************************************************************)
(* Split documents: the tasks that took the split path in the task itself  *)
(* (local storage), and the fan-in tasks that returned (shared storage).   *)
(***************************************************************************)
Range(seq) == {seq[i] : i \in 1..Len(seq)}

SyncSplitDone ==
    {t \in ParseTasks : /\ tasks[t].path = "split" /\ tasks[t].pc = "done"
                        /\ tasks[t].extract_failed = 0
                        /\ env.storage_type = "local"}

FanInDone ==
    {m \in TaskIds : /\ tasks[m].name = "merge_chunk_results"
                     /\ tasks[m].pc = "done" /\ tasks[m].state = "SUCCESS"}

DistributedSplit ==
    {t \in ParseTasks : /\ tasks[t].path = "split" /\ tasks[t].extract_failed = 0
                        /\ env.storage_type /= "local"}

\* the chunks that succeeded, each with its first page and its markdown
SyncSuccessful(t) ==
    {[start |-> tasks[t].chunks[k].start_page,
      md |-> execute_parse_document(ChunkFile(tasks[t].chunks[k]), "ok").content] :
        k \in {k \in 1..Len(tasks[t].chunks) : tasks[t].outcomes[k] = "ok"}}

ChunkInfoOfTask(c) == CHOOSE ci \in tasks[c].options.chunk_info : TRUE

FanInSuccessful(m) ==
    {[start |-> ChunkInfoOfTask(c).start_page, md |-> tasks[c].result.content] :
        c \in Range(tasks[m].lists.chunk_result_ids)}

RECURSIVE ConcatAscending(_)
ConcatAscending(items) ==
    IF items = {} THEN <<>>
    ELSE LET first == CHOOSE x \in items : \A y \in items : x.start <= y.start
         IN first.md \o ConcatAscending(items \ {first})

\* C3: in the synchronous and in the distributed split path the merged
\* markdown is the concatenation, without separator, of the markdown of
\* exactly the successful chunks in ascending order of their first page,
\* whatever order the chunk tasks finished in.
C3_MarkdownInPageOrder ==
    /\ \A t \in SyncSplitDone :
          tasks[t].result.status = "completed" =>
              tasks[t].result.content = ConcatAscending(SyncSuccessful(t))
    /\ \A m \in FanInDone :
          tasks[m].result.status = "completed" =>
              tasks[m].result.content = ConcatAscending(FanInSuccessful(m))

\* a fan-in task merged at least two chunks, the later of which finished
\* while the earlier one was not yet examined
C3_Witness ==
    \E m \in FanInDone :
        /\ tasks[m].result.status = "completed"
        /\ Len(tasks[m].lists.chunk_results) >= 2
        /\ Len(tasks[m].result.content) >= 2

C3_WitnessSync ==
    \E t \in SyncSplitDone :
        /\ tasks[t].result.status = "completed"
        /\ Cardinality(SyncSuccessful(t)) >= 2

\* C5: in distributed mode every successful chunk result the fan-in task
\* hands to the merge carries the start_page and end_page of the chunk it was
\* dispatched for (the chunk_info of the chunk task's payload).
C5_ChunkResultsCarryPageRange ==
    \A m \in TaskIds :
        tasks[m].name = "merge_chunk_results" =>
            \A k \in 1..Len(tasks[m].lists.chunk_results) :
                LET ci == ChunkInfoOfTask(tasks[m].lists.chunk_result_ids[k])
                IN /\ tasks[m].lists.chunk_results[k].start_page = Some(ci.start_page)
                   /\ tasks[m].lists.chunk_results[k].end_page = Some(ci.end_page)

Contains(message, part) ==
    \E i \in 0..(Len(message) - Len(part)) :
        SubSeq(message, i + 1, i + Len(part)) = part

NoMergedOutput(result) ==
    /\ result.content = <<>> /\ result.images = <<>>
    /\ result.content_list = NoContentList

\* C6: when every chunk of a split document fails (parse failure, chunk-task
\* failure or await timeout), in both modes the document result is a failure
\* record whose error message contains the error text of the first failed
\* chunk in dispatch order, and no merged output is produced.
C6_AllChunksFail ==
    /\ \A t \in SyncSplitDone :
          (\A k \in 1..Len(tasks[t].chunks) : tasks[t].outcomes[k] = "failed") =>
              /\ tasks[t].result.status = "failed"
              /\ Contains(tasks[t].result.error_message,
                     execute_parse_document(ChunkFile(tasks[t].chunks[1]), "failed").error_message)
              /\ NoMergedOutput(tasks[t].result)
    /\ \A m \in FanInDone :
          tasks[m].lists.chunk_results = <<>> =>
              LET first == tasks[m].chunk_task_ids[1]
                  cited == tasks[m].lists.failed_chunks[1]
              IN /\ tasks[m].result.status = "failed"
                 /\ cited.task_id = first
                 /\ \/ cited.error = <<ErrPart("TaskTimeout", 3600)>>
                    \/ (Ready(tasks[first]) /\ cited.error = tasks[first].result.error_message)
                    \/ (first \in tasks[m].raised_on
                           /\ cited.error = <<ErrPart("Exception", first)>>)
                 /\ cited.error /= <<>>
                 /\ Contains(tasks[m].result.error_message, cited.error)
                 /\ NoMergedOutput(tasks[m].result)
                 /\ tasks[tasks[m].parent].state = "SUCCESS" =>
                        tasks[tasks[m].parent].result = tasks[m].result

\* every chunk of a document of at least two chunks failed, the first by a
\* parse failure and another one otherwise, and the document task returned
\* the failure record
C6_Witness ==
    \E m \in FanInDone :
        /\ tasks[m].lists.chunk_results = <<>>
        /\ Len(tasks[m].lists.failed_chunks) >= 2
        /\ tasks[m].lists.failed_chunks[1].error /= tasks[m].lists.failed_chunks[2].error
        /\ tasks[tasks[m].parent].state = "SUCCESS"
        /\ tasks[tasks[m].parent].result.status = "failed"

RECURSIVE TotalLen(_)
TotalLen(items) ==
    IF items = {} THEN 0
    ELSE LET x == CHOOSE x \in items : TRUE
         IN Len(x.md) + TotalLen(items \ {x})

BuiltOnlyFrom(result, items) ==
    /\ result.status = "completed"
    /\ Range(result.content) = UNION {Range(x.md) : x \in items}
    /\ Len(result.content) = TotalLen(items)

\* C7: when at least one chunk succeeds and any number of the others fail,
\* the document result has status completed, its content is built only from
\* the successful chunks and nothing is inserted for the failed chunks.
C7_PartialFailure ==
    /\ \A t \in SyncSplitDone :
          SyncSuccessful(t) /= {} =>
              /\ BuiltOnlyFrom(tasks[t].result, SyncSuccessful(t))
              /\ \A i \in 1..Len(tasks[t].result.content_list.records) :
                    tasks[t].result.content_list.records[i].id \in Range(tasks[t].result.content)
    /\ \A m \in FanInDone :
          tasks[m].lists.chunk_result_ids /= <<>> =>
              /\ BuiltOnlyFrom(tasks[m].result, FanInSuccessful(m))
              /\ \A i \in 1..Len(tasks[m].result.content_list.records) :
                    tasks[m].result.content_list.records[i].id \in Range(tasks[m].result.content)

\* one chunk out of three failed (the second), and the result is the
\* concatenation of the first and the third
C7_Witness ==
    \E m \in FanInDone :
        /\ Len(tasks[m].chunk_task_ids) = 3
        /\ tasks[m].lists.chunk_result_ids = <<tasks[m].chunk_task_ids[1], tasks[m].chunk_task_ids[3]>>
        /\ tasks[m].result.status = "completed"
        /\ tasks[m].result.content = <<1, 3>>

C7_WitnessSync ==
    \E t \in SyncSplitDone :
        /\ tasks[t].outcomes = <<"ok", "failed", "ok">>
        /\ tasks[t].result.content = <<1, 3>>

\* what a task that holds a worker slot is polling for, if anything
WaitsFor(t) ==
    CASE tasks[t].pc = "polling" -> {MergeTaskOf(t)}
      [] tasks[t].pc = "awaiting" -> {tasks[t].chunk_task_ids[tasks[t].idx]}
      [] OTHER -> {}

\* C9: with one queue and one pool of W slots, no state is reached in which
\* every worker slot is held by a task that is polling for a task still
\* waiting in the queue.
C9_NoPoolDeadlock ==
    ~ /\ Cardinality(Running) = env.WORKER_CONCURRENCY
      /\ \A t \in Running : \E w \in WaitsFor(t) : w \in Range(queue)

\* C10: in distributed mode the top-level task never reaches a successful
\* terminal state before its fan-in task is terminal, the result it returns
\* is the fan-in task's result, and it ends in failure when the fan-in task
\* fails or is not ready within the wait limit.
C10_ResolvesWithFanIn ==
    \A t \in DistributedSplit :
        /\ tasks[t].state = "SUCCESS" =>
              /\ tasks[MergeTaskOf(t)].state = "SUCCESS"
              /\ tasks[t].result = tasks[MergeTaskOf(t)].result
        /\ (tasks[t].pc = "done" /\ tasks[MergeTaskOf(t)].state /= "SUCCESS") =>
              /\ tasks[t].state = "FAILURE"
              /\ tasks[t].result.status = "exception"

\* a top-level task returned the merged result of its fan-in task, and
\* (second witness) one ended in failure because its fan-in task failed
C10_Witness ==
    \E t \in DistributedSplit :
        /\ tasks[t].parent = 0
        /\ tasks[t].state = "SUCCESS"
        /\ tasks[t].result.status = "completed"
        /\ tasks[t].result.content = tasks[t].file.pages

C10_WitnessFailure ==
    \E t \in DistributedSplit :
        /\ tasks[t].state = "FAILURE"
        /\ tasks[MergeTaskOf(t)].state = "FAILURE"
        /\ Contains(tasks[t].result.error_message, <<ErrPart("MergeTaskFailed", 0)>>)

(***************************************************************************)
(* The await loop of the fan-in task                                       *)
(***************************************************************************)
FanInTasks == {m \in TaskIds : tasks[m].name = "merge_chunk_results"}

FailedIds(m) ==
    {tasks[m].lists.failed_chunks[i].task_id : i \in 1..Len(tasks[m].lists.failed_chunks)}

TimedOutIds(m) ==
    {tasks[m].lists.failed_chunks[i].task_id :
        i \in {i \in 1..Len(tasks[m].lists.failed_chunks) :
                  tasks[m].lists.failed_chunks[i].error = <<ErrPart("TaskTimeout", 3600)>>}}

\* C11: a chunk task that is not terminal when its per-chunk timeout elapses
\* is recorded as failed with a timeout error, is not sent again and is never
\* polled again: every chunk task the loop has passed has exactly one entry,
\* a failure or a result, the loop is at the next chunk, a timed-out chunk
\* stays a failure even when it finishes later, and no chunk task is in the
\* queue twice or again after it started.
C11_TimedOutChunkIsFailed ==
    /\ \A m \in FanInTasks :
          LET passed == {tasks[m].chunk_task_ids[k] : k \in 1..(tasks[m].idx - 1)}
          IN tasks[m].idx >= 1 =>
                /\ Len(tasks[m].lists.failed_chunks) + Len(tasks[m].lists.chunk_result_ids)
                      = tasks[m].idx - 1
                /\ FailedIds(m) \cup Range(tasks[m].lists.chunk_result_ids) = passed
                /\ FailedIds(m) \cap Range(tasks[m].lists.chunk_result_ids) = {}
                /\ Cardinality(passed) = tasks[m].idx - 1
                /\ \A c \in Range(tasks[m].lists.chunk_result_ids) : tasks[c].state = "SUCCESS"
    /\ \A i, j \in 1..Len(queue) : queue[i] = queue[j] => i = j
    /\ \A i \in 1..Len(queue) : tasks[queue[i]].state = "PENDING"
    /\ \A m \in FanInTasks :
          Cardinality({c \in TaskIds : tasks[c].parent = tasks[m].parent
                                          /\ tasks[c].name = "parse_document"})
              = Len(tasks[m].chunk_task_ids)

\* a chunk task timed out in the loop, the loop went on to the chunks after
\* it and returned, and the chunk task finished successfully afterwards
C11_Witness ==
    \E m \in FanInDone :
        \E c \in TimedOutIds(m) :
            /\ c = tasks[m].chunk_task_ids[1]
            /\ Len(tasks[m].chunk_task_ids) >= 2
            /\ tasks[m].lists.chunk_result_ids /= <<>>
            /\ tasks[c].state = "SUCCESS"
            /\ tasks[c].result.status = "completed"

(***************************************************************************)
(* Failures of the split and of the probe                                  *)
(***************************************************************************)
\* the ranges split_pdf_file makes of the task's document
RangesOf(t) == split_pdf_file(tasks[t].file.pages, env.MINERU_PAGE_CHUNK_SIZE)

\* C12: when the extraction of a single page range fails, the split is not
\* aborted: the task does not end with the exception, the other ranges are
\* still produced and parsed, and the failing range is one failed chunk.
C12_ExtractionFailureIsOneFailedChunk ==
    \A t \in ParseTasks :
        tasks[t].extract_failed /= 0 =>
            /\ tasks[t].result.status /= "exception"
            /\ Len(tasks[t].chunks) >= Len(RangesOf(t)) - 1

\* the task came to the decision with the probe due and got no page count:
\* pypdfium2 is missing, or get_pdf_page_count caught an exception
ProbeFailed(t) ==
    /\ tasks[t].path /= ""
    /\ IsPdfName(tasks[t].file)
    /\ ~UserDisablePagination(tasks[t].options)
    /\ env.MINERU_ENABLE_PAGINATION
    /\ tasks[t].probed = 0

ChildrenOf(t) == {c \in TaskIds : tasks[c].parent = t}

C13_WitnessNoLibrary ==
    \E t \in ParseTasks :
        /\ ProbeFailed(t) /\ ~env.PYPDFIUM2_AVAILABLE
        /\ env.MINERU_PAGINATION_THRESHOLD = 0
        /\ tasks[t].state = "SUCCESS"
        /\ tasks[t].result.status = "completed"

(***************************************************************************)
(* The direct path                                                         *)
(***************************************************************************)
\* every key some task has written
Written == UNION {tasks[t].writes : t \in TaskIds}

\* C14: when the direct path is taken (a document whose page count is not
\* above the threshold takes it) no chunk sub-document is written to
\* storage, no chunk task and no fan-in task is sent, and the task's result
\* is the result of the single parse.
C14_DirectPathSendsNothing ==
    \A t \in ParseTasks :
        /\ (tasks[t].path /= ""
              /\ Len(tasks[t].file.pages) <= env.MINERU_PAGINATION_THRESHOLD) =>
                 tasks[t].path = "direct"
        /\ tasks[t].path = "direct" =>
              /\ {k \in Written : k.dir = "splits" /\ k.scope[1] = t} = {}
              /\ ChildrenOf(t) = {}
              /\ tasks[t].meta.merge_task_id = None /\ tasks[t].meta.chunk_count = 0
              /\ tasks[t].writes \subseteq
                    {OutputKey(<<t>>, "md"), OutputKey(<<t>>, "content_list.json")}
              /\ (tasks[t].pc = "done" /\ tasks[t].outcomes /= <<"killed">>) =>
                    /\ tasks[t].state = "SUCCESS"
                    /\ tasks[t].result =
                          execute_parse_document(tasks[t].file, tasks[t].outcomes[1])
                    /\ tasks[t].outcomes = <<"ok">> =>
                          tasks[t].result.content = tasks[t].file.pages

\* a PDF with as many pages as the threshold, counted by the probe, was
\* parsed in one piece and only the task itself exists
C14_Witness ==
    \E t \in TopLevel :
        /\ tasks[t].path = "direct"
        /\ tasks[t].probed = env.MINERU_PAGINATION_THRESHOLD
        /\ tasks[t].probed = 2
        /\ tasks[t].state = "SUCCESS"
        /\ tasks[t].result.content = tasks[t].file.pages
        /\ tasks[t].writes /= {}
        /\ TaskIds = {t}

(***************************************************************************)
(* Cleanup of the upload                                                   *)
(***************************************************************************)
\* the split document tasks that ended in one of the ways the split path
\* ends by itself: a result, a split error, a failed or late fan-in task
SplitTerminal ==
    {t \in TopLevel : /\ tasks[t].path = "split" /\ tasks[t].pc = "done"
                      /\ tasks[t].result /= Raised(<<ErrPart("TimeLimitExceeded", 7200)>>)}

\* C15: in both modes, whenever a split document task reaches a terminal
\* state (success, all chunks failed, split error, fan-in failure or fan-in
\* wait timeout) the uploaded temporary document has been deleted.
C15_UploadDeletedAtTerminal ==
    \A t \in SplitTerminal : tasks[t].file_path \in tasks[t].deletes

(***************************************************************************)
(* The status query                                                        *)
(***************************************************************************)
\* the outcome of a document task is a failure: it raised, or it returned a
\* failure record (the parse failed, every chunk failed)
OutcomeIsFailure(t) ==
    tasks[t].pc = "done" /\ tasks[t].result.status \in {"failed", "exception"}

\* C16: whenever the outcome of a document task is a failure (the direct
\* parse failed, or every chunk of a split document failed) the status query
\* reports failed for that task id, never completed.
C16_FailureIsReportedFailed ==
    \A t \in TopLevel :
        OutcomeIsFailure(t) => get_task_status(tasks[t]).status = "failed"

\* a query for a task that is waiting, running or done with a result that
\* is not a failure record never answers failed
C16_FailedOnlyWhenRaised ==
    \A t \in TopLevel :
        get_task_status(tasks[t]).status = "failed" <=> tasks[t].state = "FAILURE"

\* the states a query can have seen a task in, in order, with the status of
\* the progress metadata for a task in progress
ObservedStates(t) == tasks[t].seen

\* C17: in synchronous split mode the observable state of the top-level task
\* goes through queued, started, splitting_and_parsing, merging and then
\* succeeded or failed, in that order.
C17_SyncStateSequence ==
    \A t \in SyncSplitDone :
        \E final \in {"SUCCESS", "FAILURE"} :
            ObservedStates(t) =
                <<"PENDING", "STARTED", "splitting_and_parsing", "merging", final>>

\* the sequence the synchronous split path does go through
C17_SyncStateSequenceWithoutMerging ==
    \A t \in SyncSplitDone :
        ObservedStates(t) = <<"PENDING", "STARTED", "splitting_and_parsing", "SUCCESS">>

\* C18: for a document task in the splitting_and_parsing state the status
\* query returns the chunk count and the fan-in task id recorded in the
\* task's progress metadata.
C18_StatusReturnsChunkCount ==
    \A t \in ParseTasks :
        (tasks[t].state = "STARTED" /\ tasks[t].meta.status = "splitting_and_parsing") =>
            /\ get_task_status(tasks[t]).chunk_count = Some(tasks[t].meta.chunk_count)
            /\ get_task_status(tasks[t]).merge_task_id = tasks[t].meta.merge_task_id

(***************************************************************************)
(* Storage keys                                                            *)
(***************************************************************************)
\* the keys of the chunk sub-documents of one document are pairwise distinct
ChunkKeysDistinct(t) ==
    \A j, k \in 1..Len(tasks[t].chunks) :
        ChunkKey(t, tasks[t].chunks[j]) = ChunkKey(t, tasks[t].chunks[k]) => j = k

\* the keys the tasks write (chunk sub-documents, per-chunk outputs, merged
\* outputs) are distinct between tasks and from every upload
TaskKeysDistinct ==
    /\ \A t, u \in TaskIds : t /= u => tasks[t].writes \cap tasks[u].writes = {}
    /\ \A t \in TopLevel, u \in TaskIds : tasks[t].file_path \notin tasks[u].writes
    /\ \A t \in TaskIds : ChunkKeysDistinct(t)

\* C19: no two distinct tasks ever write the same storage key: the keys of
\* uploaded inputs, chunk sub-documents, per-chunk outputs and merged outputs
\* are pairwise distinct between tasks, and the chunk sub-document keys of
\* one document are pairwise distinct.
C19_KeysDistinct ==
    /\ \A t, u \in TopLevel : t /= u => tasks[t].file_path /= tasks[u].file_path
    /\ TaskKeysDistinct

\* what holds of the keys made from task ids and page ranges
C19_TaskScopedKeysDistinct == TaskKeysDistinct

\* the top-level document tasks that returned a merged result
MergedDocuments ==
    {t \in TopLevel : /\ tasks[t].path = "split" /\ tasks[t].state = "SUCCESS"
                      /\ tasks[t].result.status = "completed"}

\* the keys under which the merged files of document t were written: by the
\* task itself in the local mode, by its fan-in task in the distributed mode
MergedKeysOf(t) ==
    {k \in tasks[t].writes : k.area = "output" /\ k.scope = <<t>>}
        \cup (IF tasks[t].meta.merge_task_id = None THEN {}
              ELSE tasks[MergeTaskOf(t)].writes)

\* C20: in both modes the merged markdown file and the merged structured-
\* content file are written to output storage under a key whose prefix is
\* the id of the top-level document task.
C20_MergedOutputUnderTopLevelId ==
    \A t \in MergedDocuments :
        /\ OutputKey(<<t>>, "result.md") \in MergedKeysOf(t)
        /\ \A k \in MergedKeysOf(t) : k.area = "output" /\ k.scope = <<t>>

\* what holds: the prefix is the id of the task that ran the merge, which is
\* the top-level task in the local mode and the fan-in task otherwise
C20_MergedOutputUnderMergingTaskId ==
    \A t \in MergedDocuments :
        LET merger == IF tasks[t].meta.merge_task_id = None THEN t ELSE MergeTaskOf(t)
        IN /\ OutputKey(<<merger>>, "result.md") \in MergedKeysOf(t)
           /\ \A k \in MergedKeysOf(t) : k.area = "output" /\ k.scope = <<merger>>

(***************************************************************************)
(* pypdfium2_lock.  The threads of one worker process run the functions    *)
(* that call into pypdfium2 and MinerU: get_pdf_page_count (one "with"     *)
(* block: open, len, close), split_pdf_file (one block to open the         *)
(* document, one block per chunk to create it, import its pages, save and  *)
(* close it, one block to close the document) and _parse_with_mineru (one  *)
(* block around do_parse).  Every engine call of the code stands inside    *)
(* one of these blocks, so a thread is inside the engine exactly while it  *)
(* is inside a block.  call.locked_by is the thread that acquired the lock *)
(* last while it is held, NoThread while it is free.                       *)
(***************************************************************************)
MaxThreads == 2
MaxLockChunks == 2

NoThread == 0
Threads == 1..MaxThreads

IdleThread == [section |-> "idle", inside |-> FALSE, chunks_left |-> 0, raised |-> FALSE]

InitLock ==
    /\ env = IdleEnv /\ tasks = <<>> /\ queue = <<>>
    /\ call = [fn |-> "pypdfium2_lock", locked_by |-> NoThread,
               threads |-> [th \in Threads |-> IdleThread]]

\* a thread calls one of the three functions and arrives at its first block
EnterFunction(th) ==
    /\ call.fn = "pypdfium2_lock"
    /\ call.threads[th].section = "idle"
    /\ \E f \in {"get_pdf_page_count", "split_pdf_file", "do_parse"},
          n \in 1..MaxLockChunks :
          call' = [call EXCEPT !.threads[th] =
                      [section |-> IF f = "split_pdf_file" THEN "split_open" ELSE f,
                       inside |-> FALSE,
                       chunks_left |-> IF f = "split_pdf_file" THEN n ELSE 0,
                       raised |-> FALSE]]
    /\ UNCHANGED <<env, tasks, queue>>

\* an acquire that does not wait for the lock to be free
AcquireHeldLock(th) ==
    /\ call.fn = "pypdfium2_lock"
    /\ call.threads[th].section # "idle" /\ ~call.threads[th].inside
    /\ call' = [call EXCEPT !.locked_by = th, !.threads[th].inside = TRUE]
    /\ UNCHANGED <<env, tasks, queue>>

\* with pypdfium2_lock:   (entry: blocks until the lock is free)
AcquireLock(th) ==
    /\ call.fn = "pypdfium2_lock"
    /\ call.threads[th].section # "idle" /\ ~call.threads[th].inside
    /\ call.locked_by = NoThread
    /\ call' = [call EXCEPT !.locked_by = th, !.threads[th].inside = TRUE]
    /\ UNCHANGED <<env, tasks, queue>>

\* the block the thread arrives at after it left the given one normally
NextSection(thread) ==
    CASE thread.section = "split_open" -> "split_chunk"
      [] thread.section = "split_chunk" ->
            IF thread.chunks_left > 1 THEN "split_chunk" ELSE "split_close"
      [] OTHER -> "idle"

\* the engine calls of the block return: the "with" statement releases the
\* lock and the function goes on to its next block or returns
ExitBlock(th) ==
    /\ call.fn = "pypdfium2_lock"
    /\ call.threads[th].inside
    /\ call' = [call EXCEPT
                  !.locked_by = NoThread,
                  !.threads[th] =
                      [section |-> NextSection(@),
                       inside |-> FALSE,
                       chunks_left |-> IF @.section = "split_chunk"
                                       THEN @.chunks_left - 1 ELSE @.chunks_left,
                       raised |-> FALSE]]
    /\ UNCHANGED <<env, tasks, queue>>

\* an engine call of the block raises: the "with" statement releases the
\* lock and the exception leaves the block; get_pdf_page_count returns 0,
\* split_pdf_file and _parse_with_mineru raise to their callers
RaiseInBlock(th) ==
    /\ call.fn = "pypdfium2_lock"
    /\ call.threads[th].inside
    /\ call' = [call EXCEPT
                  !.locked_by = NoThread,
                  !.threads[th] = [IdleThread EXCEPT !.raised = TRUE]]
    /\ UNCHANGED <<env, tasks, queue>>

NextLock ==
    \E th \in Threads :
        \/ EnterFunction(th)
        \/ AcquireLock(th)
        \/ ExitBlock(th)
        \/ RaiseInBlock(th)

SpecLock == InitLock /\ [][NextLock]_vars

\* the threads that are inside a call into the engine
InEngine == {th \in Threads : call.threads[th].inside}

\* C21: within one worker process at most one thread is inside a call into
\* the engine at any time: the probe, the opening, import and closing done
\* by the splitter and the parse call all run while holding the one lock,
\* and the lock is free again whenever its holder has left the block,
\* whether by returning or by an exception.
C21_EngineCallsExclusive ==
    call.fn = "pypdfium2_lock" =>
        /\ Cardinality(InEngine) <= 1
        /\ \A th \in InEngine : call.locked_by = th
        /\ call.locked_by # NoThread => call.locked_by \in InEngine

\* a thread is inside do_parse while another one, whose engine call raised,
\* has left its block with the lock released
C21_Witness ==
    /\ call.fn = "pypdfium2_lock"
    /\ \E a, b \in Threads :
          /\ a # b
          /\ call.threads[a].inside /\ call.threads[a].section = "do_parse"
          /\ call.locked_by = a
          /\ call.threads[b].raised

\* a thread of the splitter waits for the block of its last chunk while the
\* parse call of another thread holds the lock
C21_WitnessWaiting ==
    /\ call.fn = "pypdfium2_lock"
    /\ \E a, b \in Threads :
          /\ call.threads[a].inside /\ call.threads[a].section = "do_parse"
          /\ call.threads[b].section = "split_chunk" /\ ~call.threads[b].inside
          /\ call.threads[b].chunks_left = 1

C23_CancelSignalsChunkTasks ==
    \A t \in TopLevel :
        tasks[t].revoke_sent =>
            \A c \in tasks[t].executing_at_cancel : tasks[c].revoke_sent

\* what holds: the signal is sent for the task itself, which does not go on
\* executing, and for no other task
C23_CancelSignalsTheTaskOnly ==
    /\ \A t \in TopLevel : tasks[t].revoke_sent => tasks[t].state /= "STARTED"
    /\ \A c \in TaskIds \ TopLevel : ~tasks[c].revoke_sent

(***************************************************************************)
(* cleanup_outputs.py: main() cleans the temporary directory, the output   *)
(* directory, or both, with --dry-run or without.  An entry of a directory *)
(* is a file or a directory that is older than the threshold of its        *)
(* cleanup (expired) or not.  With S3 the entries of the output bucket are *)
(* the task prefixes.                                                      *)
(***************************************************************************)
MaxTempItems == 2
MaxOutputDirs == 2

\* the possible contents of a directory of at most n entries
Listings(n) ==
    {S \in SUBSET [name : 1..n, kind : {"file", "dir"}, expired : BOOLEAN] :
        \A a, b \in S : a.name = b.name => a = b}

InitCleanup ==
    /\ env = IdleEnv /\ tasks = <<>> /\ queue = <<>>
    /\ \E dry_run \in BOOLEAN, temp_only \in BOOLEAN, output_only \in BOOLEAN,
          storage_type \in {"local", "s3"} :
       \E temp \in Listings(MaxTempItems), output \in Listings(MaxOutputDirs) :
          call = [fn |-> "cleanup_outputs", dry_run |-> dry_run,
                  temp_only |-> temp_only, output_only |-> output_only,
                  storage_type |-> storage_type,
                  pc |-> IF ~temp_only /\ output_only THEN "output" ELSE "temp",
                  ran |-> {},
                  temp |-> temp, output |-> output,
                  temp_before |-> temp, output_before |-> output]

\* the entries a cleanup without --dry-run tries to delete
ExpiredEntries(entries) == {e \in entries : e.expired}

\* a cleanup that deletes whatever the mode
CleanupIgnoringDryRun(entries, dry_run, delete_failed) ==
    entries \ (ExpiredEntries(entries) \ delete_failed)

\* the loop of cleanup_temp_dir over the items of the directory: an expired
\* item is printed in preview mode, deleted otherwise (unlink / rmtree, which
\* may fail for the items of delete_failed)
cleanup_temp_items(entries, dry_run, delete_failed) ==
    IF dry_run THEN entries
    ELSE entries \ (ExpiredEntries(entries) \ delete_failed)

\* the loop of _cleanup_local_outputs / _cleanup_s3_outputs over the task
\* directories; the local one skips what is not a directory
cleanup_task_dirs(entries, dry_run, storage_type, delete_failed) ==
    LET task_dirs == IF storage_type = "s3" THEN entries
                     ELSE {e \in entries : e.kind = "dir"}
    IN IF dry_run THEN entries
       ELSE entries \ (ExpiredEntries(task_dirs) \ delete_failed)

\* cleanup_temp_dir: nothing is done with S3 storage
CleanupTempDir ==
    /\ call.fn = "cleanup_outputs" /\ call.pc = "temp"
    /\ \E delete_failed \in SUBSET ExpiredEntries(call.temp) :
          call' = [call EXCEPT
                     !.temp = IF call.storage_type = "s3" THEN @
                              ELSE cleanup_temp_items(@, call.dry_run, delete_failed),
                     !.ran = @ \cup {"cleanup_temp_dir"},
                     !.pc = IF call.temp_only THEN "done" ELSE "output"]
    /\ UNCHANGED <<env, tasks, queue>>

\* cleanup_expired_outputs
CleanupExpiredOutputs ==
    /\ call.fn = "cleanup_outputs" /\ call.pc = "output"
    /\ \E delete_failed \in SUBSET ExpiredEntries(call.output) :
          call' = [call EXCEPT
                     !.output = cleanup_task_dirs(@, call.dry_run, call.storage_type,
                                                  delete_failed),
                     !.ran = @ \cup {"cleanup_expired_outputs"},
                     !.pc = "done"]
    /\ UNCHANGED <<env, tasks, queue>>

NextCleanup == CleanupTempDir \/ CleanupExpiredOutputs

SpecCleanup == InitCleanup /\ [][NextCleanup]_vars

\* C24: in dry-run mode the cleanup of the output directory and of the
\* temporary directory deletes nothing: the files and directories in storage
\* are the same after the run as before it.
C24_DryRunDeletesNothing ==
    (call.fn = "cleanup_outputs" /\ call.dry_run) =>
        /\ call.temp = call.temp_before
        /\ call.output = call.output_before

\* a dry run over both directories is over, with local storage, and both
\* held an expired directory that a run without --dry-run deletes
C24_Witness ==
    /\ call.fn = "cleanup_outputs" /\ call.dry_run /\ call.pc = "done"
    /\ call.storage_type = "local"
    /\ call.ran = {"cleanup_temp_dir", "cleanup_expired_outputs"}
    /\ \E e \in call.temp : e.expired
    /\ \E e \in call.output : e.expired /\ e.kind = "dir"
    /\ cleanup_temp_items(call.temp, FALSE, {}) /= call.temp
    /\ cleanup_task_dirs(call.output, FALSE, "local", {}) /= call.output

\* without --dry-run the expired entries whose deletion succeeded are gone
C24_WitnessDeletion ==
    /\ call.fn = "cleanup_outputs" /\ ~call.dry_run /\ call.pc = "done"
    /\ call.temp /= call.temp_before /\ call.output /= call.output_before

\* C25: every chunk produced by the splitter has end_page - start_page + 1 =
\* page_count with 1 <= page_count <= chunk size; every chunk except the last
\* has exactly chunk-size pages, and the number of chunks is
\* ceil(totalPages / chunkSize); 523 pages with chunk size 50 give 11 chunks,
\* the last with 23 pages.
C25_ChunkArithmetic ==
    (call.fn = "split_pdf_file" /\ call.done) =>
        LET chunks == call.result
            n == Len(chunks)
        IN /\ \A k \in 1..n :
                 /\ chunks[k].end_page - chunks[k].start_page + 1 = chunks[k].page_count
                 /\ 1 <= chunks[k].page_count
                 /\ chunks[k].page_count <= call.chunk_size
                 /\ Len(chunks[k].path) = chunks[k].page_count
           /\ \A k \in 1..(n - 1) : chunks[k].page_count = call.chunk_size
           /\ n * call.chunk_size >= call.total_pages
           /\ (n - 1) * call.chunk_size < call.total_pages
           /\ (call.total_pages = 523 /\ call.chunk_size = 50) =>
                 (n = 11 /\ chunks[n].page_count = 23)

\* the document of 523 pages was split every 50 pages: 11 chunks, the last
\* one of 23 pages
C25_Witness ==
    /\ call.fn = "split_pdf_file" /\ call.done
    /\ call.total_pages = 523 /\ call.chunk_size = 50
    /\ Len(call.result) = 11
    /\ call.result[11].page_count = 23
    /\ call.result[11].start_page = 501 /\ call.result[11].end_page = 523

\* the chunks of the merge call whose content list is of the given shapes
\* and whose page offset is not zero
ShiftedChunks(shapes) ==
    {k \in 2..call.n : call.shapes[k] \in shapes}

\* the page keys of the records of chunk k whose value in the merged output
\* is the chunk-relative value plus the offset of the chunk
ShiftedFieldsOf(k) ==
    LET out == call.result.content_list.records
    IN {f \in ListPageFields :
          \E i \in 1..Len(out) :
             /\ out[i].id = k
             /\ SampleRecords(k)[out[i].n][f] /= None
             /\ out[i][f] = {p + (StartOfChunk(k) - 1) : p \in SampleRecords(k)[out[i].n][f]}}

\* C26: the set of page-referencing keys whose value is shifted by the chunk
\* offset is the same for every record, whatever the shape of the chunk's
\* content list: a key that is shifted in a record of a flat list is also
\* shifted in a record found under a pages or an items wrapper.
C26_SameFieldsShiftedInEveryShape ==
    (MergeDone /\ call.tagged) =>
        \A a \in ShiftedChunks({"list"}), b \in ShiftedChunks({"pages", "items"}) :
            ShiftedFieldsOf(a) \subseteq ShiftedFieldsOf(b)

\* what holds: a flat list has five keys shifted, a wrapper only three of them
C26_FieldsShiftedByShape ==
    (MergeDone /\ call.tagged) =>
        /\ \A a \in ShiftedChunks({"list"}) : ShiftedFieldsOf(a) = ListPageFields
        /\ \A b \in ShiftedChunks({"pages", "items"}) :
              ShiftedFieldsOf(b) = WrapperPageFields

\* the merge was given the chunk results as the program hands them over:
\* tagged with their page range, or untagged in the order of the chunks
InPageOrderOrTagged == call.tagged \/ \A i \in 1..call.n : call.arrival[i] = i

\* the first of a non-empty set of chunks in ascending page order
FirstChunk(S) == CHOOSE k \in S : \A j \in S : k <= j

\* the records of the merged content list stand in page order: chunk after
\* chunk, and within a chunk in the order of its content list
RecordsInPageOrder(out) ==
    \A i, j \in 1..Len(out) :
        i < j => \/ out[i].id < out[j].id
                 \/ out[i].id = out[j].id /\ out[i].n < out[j].n

\* C27: the shape of the merged structured content (flat list, wrapper with
\* pages, wrapper with items) is the shape of the first chunk, in ascending
\* page order, that has structured content, and the wrapper-level metadata of
\* the merged result is that chunk's metadata; the records of later chunks
\* are appended to the same collection in page order, and later chunks never
\* change the shape or the metadata.
C27_ShapeOfFirstChunk ==
    (MergeDone /\ InPageOrderOrTagged /\ call.result.status = "completed") =>
        LET with_content == {k \in 1..call.n : call.shapes[k] \in {"list", "pages", "items"}}
            first == FirstChunk(with_content)
            merged == call.result.content_list
        IN with_content /= {} =>
              /\ merged.shape = call.shapes[first]
              /\ merged.meta = DetectMeta(SampleContentList(first, call.shapes[first]))
              /\ {merged.records[i].id : i \in 1..Len(merged.records)} = with_content
              /\ RecordsInPageOrder(merged.records)

\* what holds: the shape and the metadata are those detected on the first
\* chunk whose content list is non-empty, and a wrapper with neither 'pages'
\* nor 'items' is detected as a flat list
C27_ShapeOfFirstNonEmptyContentList ==
    (MergeDone /\ InPageOrderOrTagged /\ call.result.status = "completed") =>
        LET non_empty == {k \in 1..call.n : call.shapes[k] /= "none"}
            first == FirstChunk(non_empty)
            merged == call.result.content_list
        IN merged /= NoContentList =>
              /\ merged.shape = DetectFormat(SampleContentList(first, call.shapes[first]))
              /\ merged.meta = DetectMeta(SampleContentList(first, call.shapes[first]))
              /\ RecordsInPageOrder(merged.records)

\* how many times x occurs in a sequence
RECURSIVE Occurrences(_, _)
Occurrences(seq, x) ==
    IF seq = <<>> THEN 0
    ELSE (IF Head(seq) = x THEN 1 ELSE 0) + Occurrences(Tail(seq), x)

\* how many times x occurs in the image lists of the chunk results
RECURSIVE OccurrencesInChunks(_, _)
OccurrencesInChunks(chunk_results, x) ==
    IF chunk_results = <<>> THEN 0
    ELSE Occurrences(Head(chunk_results).images, x)
            + OccurrencesInChunks(Tail(chunk_results), x)

\* C28: the merged image list contains every image of every successful chunk
\* exactly as many times as it occurs (nothing lost, nothing de-duplicated),
\* ordered by non-decreasing filename, with images of equal filename kept in
\* ascending chunk page order; has_images is true exactly when the list is
\* non-empty.
C28_MergedImages ==
    (MergeDone /\ InPageOrderOrTagged /\ call.result.status = "completed") =>
        LET merged == call.result.images
            all == Range(merged)
                      \cup UNION {Range(call.chunk_results[i].images) : i \in 1..call.n}
        IN /\ \A x \in all :
                 Occurrences(merged, x) = OccurrencesInChunks(call.chunk_results, x)
           /\ \A i, j \in 1..Len(merged) :
                 i < j => /\ merged[i].filename <= merged[j].filename
                          /\ merged[i].filename = merged[j].filename
                                => merged[i].data <= merged[j].data
           /\ call.result.has_images <=> merged /= <<>>

\* three chunks that arrived out of page order hold the same image; the
\* merged list holds it three times
C28_Witness ==
    /\ MergeDone /\ call.tagged /\ call.n = 3 /\ call.arrival[1] = 3
    /\ call.naming = "identical"
    /\ Len(call.result.images) = 3
    /\ call.result.has_images

\* images under one filename stand in the page order of their chunks
C28_WitnessEqualNames ==
    /\ MergeDone /\ call.tagged /\ call.n = 3 /\ call.arrival[1] = 3
    /\ call.naming = "same"
    /\ [i \in 1..3 |-> call.result.images[i].data] = <<1, 2, 3>>

\* the filenames were sorted against the order of the chunks
C28_WitnessSorted ==
    /\ MergeDone /\ call.n = 3 /\ call.naming = "distinct"
    /\ [i \in 1..3 |-> call.result.images[i].data] = <<3, 2, 1>>

\* no chunk has an image
C28_WitnessNoImages ==
    /\ MergeDone /\ call.n = 3 /\ call.naming = "none"
    /\ call.result.status = "completed" /\ ~call.result.has_images

\* the fan-in task ended by returning, not by the hard time limit
FanInReturned(m) ==
    /\ tasks[m].pc = "done"
    /\ tasks[m].result.error_message /= <<ErrPart("TimeLimitExceeded", 7200)>>

\* C29: an error raised while the fan-in task examines the outcome of one
\* chunk task never leaves the await loop: it is recorded in the failed-chunks
\* list for that chunk, the remaining chunks are still examined, and the
\* document is reported as failed only if the list of successful chunks is
\* empty at the end of the loop.
C29_ExamineErrorStaysInLoop ==
    \A m \in FanInTasks :
        \A c \in tasks[m].raised_on :
            /\ c \in FailedIds(m)
            /\ c \notin Range(tasks[m].lists.chunk_result_ids)
            /\ \E i \in 1..Len(tasks[m].lists.failed_chunks) :
                  tasks[m].lists.failed_chunks[i] =
                      [task_id |-> c, error |-> <<ErrPart("Exception", c)>>]
            /\ tasks[m].pc \in {"awaiting", "done"}
            /\ tasks[m].pc = "awaiting" => tasks[m].idx <= Len(tasks[m].chunk_task_ids)
            /\ FanInReturned(m) =>
                  /\ tasks[m].state = "SUCCESS"
                  /\ tasks[m].idx = Len(tasks[m].chunk_task_ids) + 1
                  /\ FailedIds(m) \cup Range(tasks[m].lists.chunk_result_ids)
                        = Range(tasks[m].chunk_task_ids)
                  /\ tasks[m].result.status = "failed"
                        <=> tasks[m].lists.chunk_results = <<>>
                  /\ tasks[m].result.status \in {"failed", "completed"}

\* the examination of the first of three chunk tasks raised, the two others
\* were examined after it and the document was merged from them
C29_Witness ==
    \E m \in FanInDone :
        /\ Len(tasks[m].chunk_task_ids) = 3
        /\ tasks[m].raised_on = {tasks[m].chunk_task_ids[1]}
        /\ tasks[tasks[m].chunk_task_ids[1]].state = "SUCCESS"
        /\ Len(tasks[m].lists.chunk_result_ids) = 2
        /\ tasks[m].result.status = "completed"

\* the examination of every chunk task raised and the document is failed
C29_WitnessAllRaised ==
    \E m \in FanInDone :
        /\ Len(tasks[m].chunk_task_ids) >= 2
        /\ tasks[m].raised_on = Range(tasks[m].chunk_task_ids)
        /\ tasks[m].result.status = "failed"

\* the chunks of the merge call whose content list is malformed: a wrapper
\* with neither 'pages' nor 'items', or the defect of the call
MalformedChunks ==
    {k \in 1..call.n : call.shapes[k] = "other" \/ call.defect.chunk = k}

\* every record of the content list of chunk k is in the merged output
RecordsKept(k) ==
    \A j \in 1..Len(SampleRecords(k)) :
        \E i \in 1..Len(call.result.content_list.records) :
            /\ call.result.content_list.records[i].id = k
            /\ call.result.content_list.records[i].n = j

\* C30: if one successful chunk carries malformed structured content (a
\* wrapper with neither pages nor items, a pages/items value that is not a
\* list of records, or a page field that is not a number), only the
\* structured content of that chunk is dropped: the merge completes with
\* status completed and keeps the markdown of that chunk and the structured
\* content of the other chunks.
C30_MalformedChunkIsDropped ==
    (MergeDone /\ InPageOrderOrTagged /\ Cardinality(MalformedChunks) = 1) =>
        /\ call.result.status = "completed"
        /\ call.result.content = [k \in 1..call.n |-> k]
        /\ \A k \in 1..call.n :
              (k \notin MalformedChunks /\ call.shapes[k] \in {"list", "pages", "items"})
                 => RecordsKept(k)
        /\ \A i \in 1..Len(call.result.content_list.records) :
              call.result.content_list.records[i].id \notin MalformedChunks

\* what holds: a value under 'pages' / 'items' that cannot be iterated, or a
\* shifted page key that is not a number, makes the merge raise, and no
\* merged result is returned
C30_DefectFailsTheMerge ==
    (MergeDone /\ call.defect /= NoDefect) =>
        /\ call.result.status = "exception"
        /\ call.result.content = <<>>
        /\ CatchRaised(call.result).status = "failed"

(***************************************************************************)
(* C31: the fan-out of the distributed split path                          *)
(***************************************************************************)
\* the tasks that took the split path with shared storage and have set
\* their state to 'splitting_and_parsing'
Dispatched ==
    {t \in TaskIds : /\ tasks[t].name = "parse_document"
                     /\ tasks[t].path = "split"
                     /\ env.storage_type /= "local"
                     /\ "splitting_and_parsing" \in Range(tasks[t].seen)}

\* the fan-in tasks sent by task t
FanInTasksOf(t) ==
    {m \in TaskIds : tasks[m].parent = t /\ tasks[m].name = "merge_chunk_results"}

C32_SyncParsesEveryChunkInOrder ==
    /\ env.storage_type = "local" =>
          /\ \A t \in TaskIds : tasks[t].parent = 0 /\ tasks[t].name = "parse_document"
          /\ Range(queue) \subseteq TopLevel
    /\ \A t \in SyncSplitDone :
          /\ tasks[t].attempts = tasks[t].chunks
          /\ \A j, k \in 1..Len(tasks[t].attempts) :
                j < k => tasks[t].attempts[j].end_page < tasks[t].attempts[k].start_page
          /\ \A k \in 1..Len(tasks[t].chunks) :
                tasks[t].outcomes[k] = "ok" =>
                    /\ tasks[t].result.status = "completed"
                    /\ Range(tasks[t].chunks[k].path) \subseteq Range(tasks[t].result.content)
    /\ \A t \in ParseTasks :
          tasks[t].pc = "parsing" => tasks[t].attempts = <<>> /\ tasks[t].result = NoResult

\* the first chunk of three failed, the two after it were parsed and merged
C32_Witness ==
    \E t \in SyncSplitDone :
        /\ tasks[t].outcomes = <<"failed", "ok", "ok">>
        /\ Len(tasks[t].attempts) = 3
        /\ tasks[t].result.content = <<2, 3>>

(***************************************************************************)
(* C33: the depth of the fan-out                                           *)
(***************************************************************************)
\* the chunk tasks: the parse_document tasks sent by another task
DispatchedChunkTasks == {c \in ParseTasks : tasks[c].parent /= 0}

\* C33: a chunk task sent by the distributed split path takes the direct
\* path, whatever the chunk size and the threshold: it never splits its own
\* sub-document and never sends a task, so every task of the system was sent
\* by the API or by the task of a submitted document.
C33_ChunkTaskParsesDirectly ==
    /\ \A c \in DispatchedChunkTasks : tasks[c].path \in {"", "direct"}
    /\ \A t \in TaskIds : tasks[t].parent /= 0 => tasks[tasks[t].parent].parent = 0

\* what does hold: a chunk task takes the direct path when the chunk size is
\* not above the threshold
C33_DirectWhenChunkSizeWithinThreshold ==
    env.MINERU_PAGE_CHUNK_SIZE <= env.MINERU_PAGINATION_THRESHOLD =>
        /\ \A c \in DispatchedChunkTasks : tasks[c].path \in {"", "direct"}
        /\ \A t \in TaskIds : tasks[t].parent /= 0 => tasks[tasks[t].parent].parent = 0

\* a chunk task of such a configuration has parsed its sub-document
C33_WitnessWithinThreshold ==
    /\ env.MINERU_PAGE_CHUNK_SIZE <= env.MINERU_PAGINATION_THRESHOLD
    /\ \E c \in DispatchedChunkTasks : tasks[c].path = "direct" /\ tasks[c].pc = "done"

(***************************************************************************)
(* C34: the await loop classifies every chunk task once                    *)
(***************************************************************************)
\* the fan-in tasks whose await loop has ended
LoopEnded ==
    {m \in FanInTasks : tasks[m].idx = Len(tasks[m].chunk_task_ids) + 1}

\* how many entries of the lists of fan-in task m are about chunk task c
Classifications(m, c) ==
    Cardinality({i \in 1..Len(tasks[m].lists.chunk_result_ids) :
                    tasks[m].lists.chunk_result_ids[i] = c})
      + Cardinality({i \in 1..Len(tasks[m].lists.failed_chunks) :
                        tasks[m].lists.failed_chunks[i].task_id = c})

FailuresOf(m) ==
    {tasks[m].lists.failed_chunks[i].error[1].t : i \in 1..Len(tasks[m].lists.failed_chunks)}

\* C34: when the await loop of a fan-in task has ended, the successes and
\* the failures it collected are together as many as the chunk task ids it
\* was given, and each id stands in exactly one entry; while the loop runs,
\* exactly the ids before the current one are classified.
C34_EveryChunkClassifiedOnce ==
    /\ \A m \in LoopEnded :
          /\ Len(tasks[m].lists.chunk_results) + Len(tasks[m].lists.failed_chunks)
                = Len(tasks[m].chunk_task_ids)
          /\ Len(tasks[m].lists.chunk_results) = Len(tasks[m].lists.chunk_result_ids)
          /\ \A c \in Range(tasks[m].chunk_task_ids) : Classifications(m, c) = 1
    /\ \A m \in FanInTasks :
          tasks[m].idx >= 1 =>
              /\ Len(tasks[m].lists.chunk_results) + Len(tasks[m].lists.failed_chunks)
                    = tasks[m].idx - 1
              /\ \A k \in 1..Len(tasks[m].chunk_task_ids) :
                    Classifications(m, tasks[m].chunk_task_ids[k])
                        = IF k < tasks[m].idx THEN 1 ELSE 0

\* a loop over three chunk tasks has ended with a success, a task in an
\* unexpected state and a timeout
C34_Witness ==
    \E m \in LoopEnded :
        /\ Len(tasks[m].chunk_task_ids) = 3
        /\ Len(tasks[m].lists.chunk_results) = 1
        /\ {"TaskInState", "TaskTimeout"} \subseteq FailuresOf(m)

\* a loop has ended with a failure record, a failed task and an examination
\* that raised
C34_WitnessFailures ==
    \E m \in LoopEnded :
        /\ Len(tasks[m].chunk_task_ids) = 3
        /\ FailuresOf(m) = {"ParseError", "WorkerLost", "Exception"}

(***************************************************************************)
(* C35: the input file is not found                                        *)
(***************************************************************************)
InputMissing == {t \in ParseTasks : tasks[t].path = "missing"}

\* C35: a parse_document task whose input file is still absent when the
\* wait ends returns the failure record 'Input file not found' (the task
\* itself succeeds) and has not probed the page count, split, parsed,
\* written or deleted anything, or sent any task.
C35_MissingInputFailsAtOnce ==
    \A t \in InputMissing :
        /\ tasks[t].pc = "done" /\ tasks[t].state = "SUCCESS"
        /\ tasks[t].result = FailedResult(<<ErrPart("InputFileNotFound", 0)>>)
        /\ tasks[t].probed = 0
        /\ tasks[t].chunks = <<>> /\ tasks[t].outcomes = <<>> /\ tasks[t].attempts = <<>>
        /\ tasks[t].writes = {} /\ tasks[t].deletes = {}
        /\ tasks[t].meta.status = ""
        /\ \A c \in TaskIds : tasks[c].parent /= t
        /\ t \notin Range(queue)

\* the input of a document that would have been split was not found
C35_Witness ==
    \E t \in InputMissing :
        /\ UsePagination(env, tasks[t].file, tasks[t].options, TRUE)
        /\ tasks[t].pc = "done"

(***************************************************************************)
(* POST /api/v1/tasks/submit: submit_task reads the upload in pieces of    *)
(* UploadReadSize, counts what it has read against MAX_FILE_SIZE, saves    *)
(* the file and sends mineru.parse_document.  Sizes are in units of half   *)
(* a piece.                                                                *)
(***************************************************************************)
MaxUploadSize == 7       \* sizes of the uploads sent to the endpoint
MaxFileSizeLimit == 5    \* MAX_FILE_SIZE values explored
UploadReadSize == 2      \* file.read(1 << 23)

\* the endpoint has been called and has done nothing yet
InitSubmit ==
    /\ env = IdleEnv /\ tasks = <<>> /\ queue = <<>>
    /\ \E size \in 0..MaxUploadSize, max_file_size \in 1..MaxFileSizeLimit,
          file \in Uploads :
          call = [fn |-> "submit_task", pc |-> "reading", file |-> file,
                  size |-> size, max_file_size |-> max_file_size,
                  total_size |-> 0, file_data |-> 0,
                  raised |-> 0, status_code |-> 0, saved |-> {}]

\* `except Exception as exc: raise HTTPException(status_code=500, ...)`:
\* the status of the response when `exc` was raised in the try block.
\* HTTPException is an Exception, so the clause catches it as any other
ExceptionResponse(exc) == 500

\* one turn of `while True:`: a piece is read; an empty piece ends the loop,
\* a total above the limit raises HTTPException(413)
ReadUpload ==
    /\ call.fn = "submit_task" /\ call.pc = "reading"
    /\ LET left == call.size - call.total_size
           chunk == IF left < UploadReadSize THEN left ELSE UploadReadSize
           total_size == call.total_size + chunk
       IN call' = IF chunk = 0 THEN [call EXCEPT !.pc = "save"]
                  ELSE IF total_size > call.max_file_size
                  THEN [call EXCEPT !.total_size = total_size, !.raised = 413,
                                    !.pc = "except"]
                  ELSE [call EXCEPT !.total_size = total_size,
                                    !.file_data = @ + chunk]
    /\ UNCHANGED <<env, tasks, queue>>

\* storage.save_temp_file, celery_app.send_task, and the answer
SaveAndSend ==
    /\ call.fn = "submit_task" /\ call.pc = "save"
    /\ tasks' = Append(tasks, NewTask("parse_document", UploadKey(1, call.file.suffix),
                                      call.file, NoOptions, <<>>, 0))
    /\ queue' = Append(queue, Len(tasks) + 1)
    /\ call' = [call EXCEPT !.saved = {UploadKey(1, call.file.suffix)},
                            !.status_code = 200, !.pc = "done"]
    /\ UNCHANGED env

\* the except clause of the handler answers for what was raised
ExceptException ==
    /\ call.fn = "submit_task" /\ call.pc = "except"
    /\ call' = [call EXCEPT !.status_code = ExceptionResponse(call.raised), !.pc = "done"]
    /\ UNCHANGED <<env, tasks, queue>>

NextSubmit == ReadUpload \/ SaveAndSend \/ ExceptException

SpecSubmit == InitSubmit /\ [][NextSubmit]_vars

\* the calls that have answered an upload larger than MAX_FILE_SIZE
TooLargeAnswered ==
    call.fn = "submit_task" /\ call.pc = "done" /\ call.size > call.max_file_size

\* C36: an upload whose size is above MAX_FILE_SIZE is answered with HTTP
\* status 413; nothing is saved and no task is sent for it.
C36_TooLargeIs413 ==
    TooLargeAnswered =>
        /\ call.status_code = 413
        /\ call.saved = {} /\ tasks = <<>> /\ queue = <<>>

\* what does hold: the upload is refused, with status 500, and nothing is
\* saved or sent; an upload within the limit is saved whole and sent
C36_TooLargeIs500 ==
    /\ TooLargeAnswered =>
          /\ call.raised = 413 /\ call.status_code = 500
          /\ call.saved = {} /\ tasks = <<>> /\ queue = <<>>
    /\ (call.fn = "submit_task" /\ call.pc = "done" /\ call.size <= call.max_file_size) =>
          /\ call.status_code = 200 /\ call.file_data = call.size
          /\ Len(tasks) = 1 /\ queue = <<1>>

\* an upload that is one unit above the limit has been answered
C36_WitnessTooLarge ==
    TooLargeAnswered /\ call.size = call.max_file_size + 1 /\ call.total_size > UploadReadSize

(***************************************************************************)
(* C37: the chunk files of the split path with local storage               *)
(***************************************************************************)
\* the chunk sub-documents the splitter saved for task t
ChunkFilesWritten(t) == {key \in tasks[t].writes : key.dir = "splits"}

====
